---------------------------- MODULE Spec2Model ----------------------------
(***************************************************************************)
(* A model of src/trading_bot.py: the Portfolio Ledger of SimulationBot    *)
(* (simulate_trade, calculate_trade_amount, the final liquidation pass of  *)
(* run_simulation), the per-asset state records of AutonomousStrategy     *)
(* (get_strategy_state and the functions that go through it), the Asset   *)
(* Scorer of CoinSelector and the evaluation loop of run_simulation.       *)
(*                                                                         *)
(* Arithmetic.  The code computes in floating point; the model computes    *)
(* the same expressions exactly, in fixed point:                           *)
(*   quantity   in units of 10^-4 coin  (the precision line 859 floors to) *)
(*   price      in units of 10 dollars                                     *)
(*   money      in units of 10^-4 dollar                                   *)
(* so that  quantity * price  is  q * p * 10  money units and a 0.1%       *)
(* commission on it is  q * p / 100  money units: a whole number whenever  *)
(* q * p is a multiple of 100, as it is at every price that is a multiple  *)
(* of 1000 dollars.                                                        *)
(***************************************************************************)
EXTENDS Integers, Sequences, FiniteSets, TLC

(***************************************************************************)
(* Program constants (the CONFIGURATION block, lines 50-66).               *)
(***************************************************************************)
\* MAX_OPEN_TRADES = 5
MAX_OPEN_TRADES == 5
\* MAX_PORTFOLIO_RISK = 0.5, kept as its denominator: 1/2
MAX_PORTFOLIO_RISK_DEN == 2
\* POSITION_SIZE_PCT = 0.05, kept as its denominator: 1/20
POSITION_SIZE_PCT_DEN == 20
\* BUYING_COMMISSION = SELLING_COMMISSION = 0.001, in thousandths
BUYING_COMMISSION_PERMILLE == 1
SELLING_COMMISSION_PERMILLE == 1
\* initial_cash=10000 dollars (the default of SimulationBot.__init__ and of
\* get_balance's fallback)
INITIAL_CASH_DOLLARS == 10000
\* the minimum order max(0.001, .) of line 860, in quantity units
MIN_TRADE_QTY == 10

(***************************************************************************)
(* Bounds of the model.                                                    *)
(***************************************************************************)
\* simulate_trade calls the general specification explores
MaxCalls == 4
\* simulate_trade calls the open-position specification explores
MaxOpenCalls == 6

\* one asset more than may be open at once
NumCoins == MAX_OPEN_TRADES + 1
Coins == 1..NumCoins
\* prices offered by the market data source: 1000 and 20000 dollars
Prices == {100, 2000}
\* (score, total_score) as run_simulation passes them for the cycle's first
\* asset: total_score is the sum of the cycle's scores so far
ScoreArgs == {<<1, 1>>}
\* Python's None in a numeric field (lines 521-523): no price is negative
None == -1
\* Python's None where a state record is expected: what get_strategy_state
\* returns when it falls off its end
NoneState == [none |-> TRUE]
\* a coin self.strategies does not hold
Absent == [absent |-> TRUE]
\* no place_order call in progress
NoOrder == [coin |-> 0, side |-> "NONE", qty |-> 0, via |-> "none"]
\* an empty prices dict
NoPrices == [c \in {} |-> 0]
\* AutonomousStrategy.available_strategies (lines 480-486)
available_strategies ==
    {"mean_reversion", "macd_crossover", "rsi_strategy", "bollinger_bands",
     "combined"}

VARIABLES
    cash,              \* SimulationBot.cash
    holdings,          \* SimulationBot.holdings, 0 for an absent key
    entry_prices,      \* SimulationBot.entry_prices, <<>> for an absent key
    trade_count,       \* SimulationBot.trade_count
    profitable_trades, \* SimulationBot.profitable_trades
    n_keys,            \* len(SimulationBot.holdings): the assets seen so far
    n_valuations,      \* len(RiskManager.portfolio_values)
    strategies,        \* AutonomousStrategy.strategies: coin -> record or Absent
    price_data,        \* AutonomousStrategy.price_data, <<>> for an absent key
    strategy_performance, \* AutonomousStrategy.strategy_performance
    strategy_trade_count, \* AutonomousStrategy.strategy_trade_count
    inflight,          \* the place_order call in progress, or NoOrder
    phase,             \* run_simulation: "running", "liquidating", "done"
    pending,           \* coins the liquidation loop has still to visit
    recent_scores,     \* CoinSelector.recent_scores, in thousandths
    loop,              \* run_simulation's while loop: where it stands
    retry,             \* the wrapper of retry_on_rate_limit: where it stands
    last               \* the last operation: its inputs and its outcome

vars == <<cash, holdings, entry_prices, trade_count, profitable_trades,
          n_keys, n_valuations, strategies, price_data, strategy_performance,
          strategy_trade_count, inflight, phase, pending, recent_scores,
          loop, retry, last>>

\* the two score tables of the Strategy Engine
scores == <<strategy_performance, strategy_trade_count>>

ledger == <<cash, holdings, entry_prices, trade_count, profitable_trades>>

(***************************************************************************)
(* Helpers.                                                                *)
(***************************************************************************)
Max(a, b) == IF a >= b THEN a ELSE b
Min(a, b) == IF a <= b THEN a ELSE b

\* money value of q quantity units at price p
Value(q, p) == q * p * 10

\* a commission of permille thousandths on q quantity units at price p
Commission(q, p, permille) == (q * p * permille) \div 100

\* prices.get(c, 0)
PriceOf(prices, c) == IF c \in DOMAIN prices THEN prices[c] ELSE 0

RECURSIVE SumValue(_, _, _)
SumValue(h, prices, n) ==
    IF n = 0 THEN 0
    ELSE SumValue(h, prices, n - 1) + Value(h[n], PriceOf(prices, n))

\* get_open_trades_count (lines 841-843)
get_open_trades_count(h) == Cardinality({c \in Coins : h[c] > 0})

\* update_portfolio_value (lines 845-851): cash + sum(amount * price)
update_portfolio_value(c, h, prices) == c + SumValue(h, prices, NumCoins)

\* line 864: sum(amount * prices.get(c, 0) for ... if amount > 0)
current_position_value(h, prices) ==
    SumValue([c \in Coins |-> IF h[c] > 0 THEN h[c] ELSE 0], prices, NumCoins)

\* available_risk of line 856, doubled: max(0, pv * 0.5 - cpv) * 2
available_risk_x2(pv, cpv) == Max(0, pv - MAX_PORTFOLIO_RISK_DEN * cpv)

\* calculate_trade_amount without line 857, the cap by available_risk
calculate_trade_amount_uncapped(price, pv, score, total, cpv) ==
    LET s  == IF total > 0 THEN score ELSE 1
        t  == IF total > 0 THEN total ELSE 1
        byScore == (pv * s) \div (POSITION_SIZE_PCT_DEN * t * price * 10)
    IN  Max(MIN_TRADE_QTY, byScore)

(***************************************************************************)
(* calculate_trade_amount (lines 853-860).                                 *)
(*   score_weight = score / total_score if total_score > 0 else 1.0        *)
(*   risk_amount  = min(pv * 0.05 * score_weight, available_risk)          *)
(*   trade_qty    = floor(risk_amount / price * 10000) / 10000             *)
(*   return max(0.001, trade_qty)                                          *)
(* floor(min(x, y) / k) = min(floor(x / k), floor(y / k)), so the two      *)
(* candidates are floored separately and no rational is materialised.      *)
(***************************************************************************)
calculate_trade_amount(price, pv, score, total, cpv) ==
    LET s  == IF total > 0 THEN score ELSE 1
        t  == IF total > 0 THEN total ELSE 1
        byScore == (pv * s) \div (POSITION_SIZE_PCT_DEN * t * price * 10)
        byRisk  == available_risk_x2(pv, cpv)
                       \div (MAX_PORTFOLIO_RISK_DEN * price * 10)
        trade_qty == Min(byScore, byRisk)
    IN  Max(MIN_TRADE_QTY, trade_qty)

\* line 875: trade_amount * price * (1 + BUYING_COMMISSION)
BuyGuardCost(q, p) ==
    Value(q, p) + Commission(q, p, BUYING_COMMISSION_PERMILLE)
\* lines 882-884 without the commission
TotalCost_no_commission(q, p) == Value(q, p)
\* lines 882-884: purchase_amount + purchase_amount * BUYING_COMMISSION
TotalCost(q, p) ==
    Value(q, p) + Commission(q, p, BUYING_COMMISSION_PERMILLE)
\* lines 907-909 without the commission
NetProceeds_no_commission(h, p) == Value(h, p)
\* lines 907-909 and 1020-1022: sale_amount - sale_amount * SELLING_COMMISSION
NetProceeds(h, p) ==
    Value(h, p) - Commission(h, p, SELLING_COMMISSION_PERMILLE)
\* line 916: trade_amount * entry_price * (1 + BUYING_COMMISSION)
BuyCost(h, e) ==
    Value(h, e) + Commission(h, e, BUYING_COMMISSION_PERMILLE)


(***************************************************************************)
(* get_strategy_state (lines 515-531).  The record is created when the     *)
(* coin is not in self.strategies, and the function's only return          *)
(* statement (line 531) is inside that if-block: for a coin that already   *)
(* has a record the function falls off its end and returns None.           *)
(***************************************************************************)
NewStrategyState(active) ==
    [no |-> 0, price_mean |-> <<0, 1>>, position_status |-> "CASH",
     buy_price |-> None, stop_loss_price |-> None,
     take_profit_price |-> None, active_strategy |-> active]

\* self.strategies after the call; active is random.choice's draw (line 524)
strategies_after_get(strats, coin, active) ==
    IF strats[coin] = Absent
    THEN [strats EXCEPT ![coin] = NewStrategyState(active)]
    ELSE strats

\* the value the call returns
get_strategy_state(strats, coin, active) ==
    IF strats[coin] = Absent THEN NewStrategyState(active) ELSE NoneState

\* lines 528-530: the score tables of an asset are made with its record, a
\* score of 0.1 and a trade count of 1 for each strategy.  A score is kept
\* in thousandths of a percentage point.
performance_after_get(strats, perf, coin) ==
    IF strats[coin] = Absent /\ perf[coin] = Absent
    THEN [perf EXCEPT ![coin] = [f \in available_strategies |-> 100]]
    ELSE perf

trade_count_after_get(strats, perf, counts, coin) ==
    IF strats[coin] = Absent /\ perf[coin] = Absent
    THEN [counts EXCEPT ![coin] = [f \in available_strategies |-> 1]]
    ELSE counts

\* line 778: score *= 0.99, rounded down to the thousandth
Decay(x) == (x * 99) \div 100

\* update_strategy_performance (lines 768-778) on the tables of one asset:
\* the pair of the scores and the trade counts after the call
update_strategy_performance(perf, counts, strategy, signal, profit_pct) ==
    LET credited ==
            IF signal = "SELL" /\ profit_pct # 0
            THEN [perf EXCEPT ![strategy] = @ + profit_pct]
            ELSE IF signal = "BUY"
                 THEN [perf EXCEPT ![strategy] = @ + 100]
                 ELSE perf
        counted ==
            IF (signal = "SELL" /\ profit_pct # 0) \/ signal = "BUY"
            THEN [counts EXCEPT ![strategy] = @ + 1]
            ELSE counts
    IN  <<[f \in DOMAIN credited |-> Decay(credited[f])], counted>>

\* the greatest common divisor of two naturals
RECURSIVE GCD(_, _)
GCD(a, b) == IF b = 0 THEN a ELSE GCD(b, a % b)

\* line 918: (net_proceeds / buy_cost - 1) * 100 in thousandths of a
\* percentage point, rounded down.  net_proceeds is held * price * 0.999 and
\* buy_cost is held * entry_price * 1.001: the quantity cancels, and so
\* does the common divisor of the two prices.
TradeProfitPct(price, entry_price) ==
    IF entry_price = 0
    THEN 0
    ELSE LET g == GCD(price, entry_price)
             p == price \div g
             e == entry_price \div g
         IN  ((999 * p - 1001 * e) * 100000) \div (1001 * e)

(***************************************************************************)
(* simulate_trade (lines 862-954), up to and including the place_order     *)
(* call it issues: the return of that call is OrderReturns.                *)
(***************************************************************************)
\* line 875, first conjunct aside: the cash pre-check
CashSufficient(c, q, p) == c >= BuyGuardCost(q, p)
\* line 876 with > for >=
OpenTradesFull_off_by_one(h) == get_open_trades_count(h) > MAX_OPEN_TRADES
\* line 876
OpenTradesFull(h) == get_open_trades_count(h) >= MAX_OPEN_TRADES
\* line 880 taken as always true
WithinRiskCap_unchecked(cpv, q, p, pv) == TRUE
\* line 880 without the factor MAX_PORTFOLIO_RISK
WithinRiskCap_whole_portfolio(cpv, q, p, pv) == cpv + Value(q, p) <= pv
\* line 880: cpv + new_position_value <= portfolio_value * MAX_PORTFOLIO_RISK
WithinRiskCap(cpv, q, p, pv) ==
    MAX_PORTFOLIO_RISK_DEN * (cpv + Value(q, p)) <= pv
\* line 906 testing only that something is held
SellAllowed_any_holding(held, q) == held > 0
\* line 906: self.holdings.get(coin, 0) >= trade_amount
SellAllowed(held, q) == held >= q
\* line 881 with -= for +=
HoldingsAfterBuy_sign(held, q) == held - q
\* line 881: self.holdings[coin] += trade_amount
HoldingsAfterBuy(held, q) == held + q

Order(coin, side, qty, via) ==
    [coin |-> coin, side |-> side, qty |-> qty, via |-> via]

\* what the last operation was given, computed and did; cash0 is the cash
\* when it began
Outcome(op, coin, signal, price, prices, qty, pv, cpv, cash0, outcome) ==
    [op |-> op, coin |-> coin, signal |-> signal, price |-> price,
     prices |-> prices, qty |-> qty, pv |-> pv, cpv |-> cpv,
     cash0 |-> cash0, outcome |-> outcome]

Idle(op, outcome) ==
    Outcome(op, 0, "NONE", 0, NoPrices, 0, 0, 0, cash, outcome)

SimulateTrade(coin, signal, price, score, total, prices, active) ==
    LET pv  == update_portfolio_value(cash, holdings, prices)
        cpv == current_position_value(holdings, prices)
        q   == calculate_trade_amount(price, pv, score, total, cpv)
        held == holdings[coin]
        done(o) == Outcome("simulate_trade", coin, signal, price, prices,
                           q, pv, cpv, cash, o)
    IN
    /\ phase = "running"
    /\ inflight = NoOrder
    \* an asset is named by its position among the keys of self.holdings
    \* (lines 867-868): the call names a known asset or the next new one
    /\ coin <= n_keys + 1
    /\ n_keys' = Max(n_keys, coin)
    /\ n_valuations' = n_valuations + 1
    /\ UNCHANGED <<price_data, recent_scores, loop, retry>>
    /\ UNCHANGED <<phase, pending>>
    /\ IF signal = "BUY" /\ CashSufficient(cash, q, price)
       THEN IF OpenTradesFull(holdings)
            THEN /\ last' = done("buy_max_open")
                 /\ UNCHANGED <<ledger, strategies, scores, inflight>>
            ELSE IF WithinRiskCap(cpv, q, price, pv)
            THEN /\ holdings' = [holdings EXCEPT
                                    ![coin] = HoldingsAfterBuy(held, q)]
                 /\ cash' = cash - TotalCost(q, price)
                 /\ entry_prices' = [entry_prices EXCEPT
                                        ![coin] = Append(@, price)]
                 /\ inflight' = Order(coin, "BUY", q, "trade")
                 /\ last' = done("buy")
                 /\ UNCHANGED <<trade_count, profitable_trades, strategies, scores>>
            ELSE /\ last' = done("buy_risk")
                 /\ UNCHANGED <<ledger, strategies, scores, inflight>>
       ELSE IF signal = "SELL" /\ SellAllowed(held, q)
       THEN LET net == NetProceeds(held, price) IN
            /\ holdings' = [holdings EXCEPT ![coin] = 0]
            /\ cash' = cash + net
            /\ trade_count' = trade_count + 1
            /\ IF entry_prices[coin] # <<>>
               THEN LET entry_price == Head(entry_prices[coin])
                        profit == net - BuyCost(held, entry_price)
                        state == get_strategy_state(strategies, coin, active)
                    IN
                    /\ entry_prices' = [entry_prices EXCEPT
                                           ![coin] = Tail(@)]
                    /\ profitable_trades' =
                           IF profit > 0 THEN profitable_trades + 1
                           ELSE profitable_trades
                    /\ strategies' =
                           strategies_after_get(strategies, coin, active)
                    \* line 935 reads state["active_strategy"]: a TypeError
                    \* when state is None, which leaves simulate_trade
                    \* before the trade is logged and the order placed
                    /\ IF state = NoneState
                       THEN /\ inflight' = NoOrder
                            /\ last' = done("sell_raised")
                            /\ strategy_performance' =
                                  performance_after_get(strategies,
                                      strategy_performance, coin)
                            /\ strategy_trade_count' =
                                  trade_count_after_get(strategies,
                                      strategy_performance,
                                      strategy_trade_count, coin)
                       ELSE LET updated ==
                                  update_strategy_performance(
                                      performance_after_get(strategies,
                                          strategy_performance, coin)[coin],
                                      trade_count_after_get(strategies,
                                          strategy_performance,
                                          strategy_trade_count, coin)[coin],
                                      state.active_strategy, "SELL",
                                      TradeProfitPct(price, entry_price))
                            IN
                            /\ inflight' = Order(coin, "SELL", held, "trade")
                            /\ last' = done("sell")
                            /\ strategy_performance' =
                                  [strategy_performance EXCEPT
                                      ![coin] = updated[1]]
                            /\ strategy_trade_count' =
                                  [strategy_trade_count EXCEPT
                                      ![coin] = updated[2]]
               ELSE /\ inflight' = Order(coin, "SELL", held, "trade")
                    /\ last' = done("sell")
                    /\ UNCHANGED <<entry_prices, profitable_trades,
                                   strategies, scores>>
       ELSE /\ last' = done(IF signal = "SELL" THEN "sell_rejected"
                            ELSE "buy_no_cash")
            /\ UNCHANGED <<ledger, strategies, scores, inflight>>

(***************************************************************************)
(* place_order (lines 228-246) returns: the response or, on any failure,   *)
(* None.  The caller ignores the value (lines 902, 953, 1039).  In the     *)
(* final liquidation the holding is zeroed only now (line 1040).           *)
(***************************************************************************)
OrderReturns(ok) ==
    /\ inflight # NoOrder
    /\ inflight' = NoOrder
    /\ holdings' = IF inflight.via = "final"
                   THEN [holdings EXCEPT ![inflight.coin] = 0]
                   ELSE holdings
    /\ last' = Outcome("place_order", inflight.coin, inflight.side, 0,
                       NoPrices, inflight.qty, 0, 0, cash,
                       IF ok THEN "order_ok" ELSE "order_failed")
    /\ UNCHANGED <<price_data, recent_scores, loop, retry>>
    /\ UNCHANGED <<cash, entry_prices, trade_count, profitable_trades,
                   n_keys, n_valuations, strategies, scores, phase, pending>>

(***************************************************************************)
(* run_simulation's KeyboardInterrupt handler (lines 1000-1049).           *)
(***************************************************************************)
\* line 1000: the interrupt arrives between two operations of the loop
Interrupt ==
    /\ phase = "running"
    /\ inflight = NoOrder
    /\ phase' = "liquidating"
    \* line 1003: list(self.holdings.items()), those with amount > 0
    /\ pending' = {c \in Coins : holdings[c] > 0}
    /\ last' = Idle("interrupt", "interrupt")
    /\ UNCHANGED <<price_data, recent_scores, loop, retry>>
    /\ UNCHANGED <<ledger, n_keys, n_valuations, strategies, scores, inflight>>

\* the loop of line 1003 visits the coins in the order of the dict's keys
NextPending == CHOOSE c \in pending : \A d \in pending : c <= d

\* lines 1006-1009 and 1041-1042: select_coins() does not list the coin, or
\* raises: the coin is skipped and keeps its holding
FinalSkip ==
    /\ phase = "liquidating"
    /\ inflight = NoOrder
    /\ pending # {}
    /\ pending' = pending \ {NextPending}
    /\ last' = Outcome("final_sell", NextPending, "SELL", 0, NoPrices,
                       holdings[NextPending], 0, 0, cash, "final_skipped")
    /\ UNCHANGED <<price_data, recent_scores, loop, retry>>
    /\ UNCHANGED <<ledger, n_keys, n_valuations, strategies, scores, inflight, phase>>

\* lines 1010-1039: sell the whole amount at highest_price (0 when there is
\* neither a recorded price nor a ticker), credit the cash, log, place_order
FinalSell(highest_price) ==
    /\ phase = "liquidating"
    /\ inflight = NoOrder
    /\ pending # {}
    /\ pending' = pending \ {NextPending}
    /\ cash' = cash + NetProceeds(holdings[NextPending], highest_price)
    /\ inflight' = Order(NextPending, "SELL", holdings[NextPending], "final")
    /\ last' = Outcome("final_sell", NextPending, "SELL", highest_price,
                       NoPrices, holdings[NextPending], 0, 0, cash,
                       "final_sold")
    /\ UNCHANGED <<price_data, recent_scores, loop, retry>>
    /\ UNCHANGED <<holdings, entry_prices, trade_count, profitable_trades,
                   n_keys, n_valuations, strategies, scores, phase>>

\* lines 1044-1049: the final valuation, then run_simulation returns
Finish ==
    /\ phase = "liquidating"
    /\ inflight = NoOrder
    /\ pending = {}
    /\ phase' = "done"
    /\ n_valuations' = n_valuations + 1
    /\ last' = Idle("return", "returned")
    /\ UNCHANGED <<price_data, recent_scores, loop, retry>>
    /\ UNCHANGED <<ledger, n_keys, strategies, scores, inflight, pending>>

\* the prices dict of a cycle: this coin's price alone (the first coin of the
\* cycle) or every coin's (the last), all at one market level
PriceMaps(coin, price) ==
    {[c \in {coin} |-> price], [c \in Coins |-> price]}

\* run_simulation about to enter its while loop (line 962): pc is the
\* call the loop makes next or has just made, rest the selected assets the
\* for loop of line 969 has still to visit, coin and price the asset being
\* processed, cycles the iterations of the while loop that have ended
LoopStart ==
    [pc |-> "start", rest |-> <<>>, coin |-> 0, price |-> 0, cycles |-> 0]

\* the wrapper of retry_on_rate_limit before it is called
RetryIdle ==
    [pc |-> "idle", max_retries |-> 0, initial_delay |-> 0, retries |-> 0,
     delay |-> 0, calls |-> 0, outcome |-> "none", ret |-> "none"]

\* SimulationBot.__init__ (lines 829-839) and RiskManager.__init__ (809-810)
BotInit ==
    /\ cash = INITIAL_CASH_DOLLARS * 10000
    /\ holdings = [c \in Coins |-> 0]
    /\ entry_prices = [c \in Coins |-> <<>>]
    /\ trade_count = 0
    /\ profitable_trades = 0
    /\ n_keys = 0
    /\ n_valuations = 0
    /\ inflight = NoOrder
    /\ phase = "running"
    /\ pending = {}
    /\ last = Idle("init", "init")
    /\ loop = LoopStart
    /\ retry = RetryIdle

\* with CoinSelector.__init__ (line 268)
LedgerInit ==
    /\ BotInit
    /\ recent_scores = <<>>

\* with AutonomousStrategy.__init__ (lines 474-486)
Init ==
    /\ LedgerInit
    /\ strategies = [c \in Coins |-> Absent]
    /\ price_data = [c \in Coins |-> <<>>]
    /\ strategy_performance = [c \in Coins |-> Absent]
    /\ strategy_trade_count = [c \in Coins |-> Absent]

\* random.choice's draw at line 524 when simulate_trade's SELL path creates
\* the record: the ledger never reads it, so one draw stands for the five
LedgerDraws == {"mean_reversion"}

Trade(coins, prices_offered, score_args) ==
    \E coin \in coins, signal \in {"BUY", "SELL"}, price \in prices_offered,
       sc \in score_args, active \in LedgerDraws :
       \E prices \in PriceMaps(coin, price) :
          SimulateTrade(coin, signal, price, sc[1], sc[2], prices, active)

Next ==
    \/ n_valuations < MaxCalls /\ Trade(Coins, Prices, ScoreArgs)
    \/ \E ok \in BOOLEAN : OrderReturns(ok)
    \/ Interrupt
    \/ FinalSkip
    \/ \E p \in Prices \cup {0} : FinalSell(p)
    \/ Finish

Spec == Init /\ [][Next]_vars

(***************************************************************************)
(* The open-position specification: simulate_trade alone, over one asset   *)
(* more than may be open at once.                                          *)
(***************************************************************************)
NextOpen ==
    \/ n_valuations < MaxOpenCalls /\ Trade(Coins, {100}, {<<1, 1>>})
    \/ \E ok \in BOOLEAN : OrderReturns(ok)

SpecOpen == Init /\ [][NextOpen]_vars

(***************************************************************************)
(* The scenario specification: simulate_trade for two assets at prices of  *)
(* 100 and 110 dollars, from the initial cash.  Where q * p is not a       *)
(* multiple of 100 the commission is rounded down to the money unit.       *)
(***************************************************************************)
\* simulate_trade calls the scenario specification explores
MaxScenarioCalls == 3

ScenarioCoins == {1, 2}
ScenarioPrices == {10, 11}

NextScenario ==
    \/ /\ n_valuations < MaxScenarioCalls
       /\ Trade(ScenarioCoins, ScenarioPrices, ScoreArgs)
    \/ \E ok \in BOOLEAN : OrderReturns(ok)

SpecScenario == Init /\ [][NextScenario]_vars

(***************************************************************************)
(* The sizing specification: calculate_trade_amount called on its own,     *)
(* with arguments from bounded sets (any score, any total, a position      *)
(* value above or below the cap).                                          *)
(***************************************************************************)
SizerPrices == {100, 300, 2000, 5000}
\* money amounts: 0, 1, 333.3333, 4000, 5000 and 10000 dollars
SizerMoney == {0, 10000, 3333333, 40000000, 50000000, 100000000}
SizerScores == {0, 1, 3}
SizerTotals == {0, 1, 2, 4}

CalculateTradeAmount(price, pv, score, total, cpv) ==
    /\ last' = Outcome("calculate_trade_amount", 0, "NONE", price, NoPrices,
                       calculate_trade_amount(price, pv, score, total, cpv),
                       pv, cpv, cash, "returned")
    /\ UNCHANGED <<price_data, recent_scores, loop, retry>>
    /\ UNCHANGED <<ledger, n_keys, n_valuations, strategies, scores, inflight, phase,
                   pending>>

NextSizer ==
    \E price \in SizerPrices, pv \in SizerMoney, score \in SizerScores,
       total \in SizerTotals, cpv \in SizerMoney :
       CalculateTradeAmount(price, pv, score, total, cpv)

SpecSizer == Init /\ [][NextSizer]_vars

(***************************************************************************)
(* The Strategy Engine, AutonomousStrategy (lines 473-805).                *)
(*                                                                         *)
(* Arithmetic.  A strategy price is a whole number; buy_price is kept in   *)
(* thousandths of it (price * 1.001 is price * 1001), a stop-loss or       *)
(* take-profit percentage in units of 10^-4, and stop_loss_price and       *)
(* take_profit_price in units of 10^-7 price, so every product the code    *)
(* forms is a whole number.  price_mean is the fraction <<num, den>>.      *)
(***************************************************************************)
lookback_period == 20
RSI_PERIOD == 10
RSI_OVERBOUGHT == 70
RSI_OVERSOLD == 30
MACD_SLOW == 21
BBANDS_PERIOD == 15
STOCH_K == 10

\* line 540: max(RSI_PERIOD, MACD_SLOW, BBANDS_PERIOD, STOCH_K)
MaxPeriod == Max(Max(RSI_PERIOD, MACD_SLOW), Max(BBANDS_PERIOD, STOCH_K))

\* calculate_indicators returning None (line 541)
NoIndicators == [unavailable |-> TRUE]

\* the result of a call: what it returned (or the exception it raised) and
\* the value of the record `state` is bound to when it ends
Ret(ret, state) == [ret |-> ret, state |-> state]

\* lines 533-536
update_price_data(prices, price) ==
    LET appended == Append(prices, price)
    IN  IF Len(appended) > MaxPeriod + 10 THEN Tail(appended) ELSE appended

\* lines 538-567: None below 22 samples; otherwise talib's values, which the
\* model does not compute: drawn is any record of indicator values
calculate_indicators(prices, drawn) ==
    IF Len(prices) < MaxPeriod + 1 THEN NoIndicators ELSE drawn

\* lines 488-505 without the cap of line 499
calculate_risk_levels_uncapped(prices, volatility) ==
    IF Len(prices) < 10
    THEN <<100, 300>>
    ELSE LET stop_loss_pct == Max((3 * volatility) \div 2, 100)
         IN  <<stop_loss_pct, Max((5 * stop_loss_pct) \div 2, 30)>>

\* lines 488-505, in units of 10^-4; volatility is np.std of the buffer's
\* returns (line 496), drawn by the strategy specifications and computed
\* by np_std in the risk-level specification
calculate_risk_levels(prices, volatility) ==
    IF Len(prices) < 10
    THEN <<100, 300>>
    ELSE LET stop_loss_pct == Min(Max((3 * volatility) \div 2, 100), 500)
             min_take_profit == 10 * (BUYING_COMMISSION_PERMILLE
                                      + SELLING_COMMISSION_PERMILLE) + 10
             take_profit_pct == Max((5 * stop_loss_pct) \div 2, min_take_profit)
         IN  <<stop_loss_pct, take_profit_pct>>

\* What a get_strategy_state(coin) call returns for an asset whose record
\* is rec: None, the function falling off its end (lines 516-531)
Known(rec) ==
    get_strategy_state([c \in {0} |-> rec], 0, rec.active_strategy)

\* the record itself: line 531 as it would be at the function's level
Same(rec) == rec

\* what a get_strategy_state call made inside a function returns for the
\* asset's record rec: inner names which of the two above applies
Lookup(inner, rec) == IF inner = "Known" THEN Known(rec) ELSE Same(rec)

\* the asset's record after a call that returned r, rec being the record
\* before it: a call whose state was None has not touched the record
After(r, rec) == IF r.state = NoneState THEN rec ELSE r.state

\* lines 507-513 for an asset whose record is rec; inner is what the
\* get_strategy_state call of line 508 returns for it, entry is in
\* thousandths, levels is what calculate_risk_levels returned (line 509)
set_risk_levels(inner, rec, entry, levels) ==
    LET state == Lookup(inner, rec)
    IN  IF state = NoneState
        THEN Ret("TypeError", rec)
        ELSE Ret("None",
                 [state EXCEPT !.buy_price = entry,
                               !.stop_loss_price = entry * (10000 - levels[1]),
                               !.take_profit_price = entry * (10000 + levels[2])])

\* lines 572-576 on the record
update_price_mean(state, price) ==
    LET m == state.price_mean
        mean == IF m[1] = 0
                THEN <<price, 1>>
                ELSE <<m[1] * state.no + price * m[2], m[2] * (state.no + 1)>>
    IN  [state EXCEPT !.price_mean = mean, !.no = @ + 1]

\* lines 599-602 without the take-profit test of lines 603-605
ExitTriggered_stop_only(state, price) ==
    /\ state.position_status = "HOLDING"
    /\ price * 10000000 <= state.stop_loss_price

\* lines 599-605 (and 632-638, 666-672, 700-706, 734-740): the stop-loss
\* and take-profit test of a HOLDING asset
ExitTriggered(state, price) ==
    /\ state.position_status = "HOLDING"
    /\ \/ price * 10000000 <= state.stop_loss_price
       \/ price * 10000000 >= state.take_profit_price

\* lines 600 and 603: comparing the price with a stop-loss or take-profit
\* price that is None raises TypeError
ExitTestRaises(state, price) ==
    /\ state.position_status = "HOLDING"
    /\ \/ state.stop_loss_price = None
       \/ /\ price * 10000000 > state.stop_loss_price
          /\ state.take_profit_price = None

\* lines 608-610 (645-647, 679-681, 713-715, 752-754): position_status is
\* set, then set_risk_levels is called; BUY is returned if it returns
Enter(inner, state, price, levels) ==
    LET r == set_risk_levels(inner,
                             [state EXCEPT !.position_status = "HOLDING"],
                             price * 1001, levels)
    IN  IF r.ret = "TypeError" THEN r ELSE Ret("BUY", r.state)

\* lines 615-620 (651-656, 685-690, 719-724, 758-763)
Exit(state) ==
    [state EXCEPT !.position_status = "CASH", !.buy_price = None,
                  !.stop_loss_price = None, !.take_profit_price = None]

(***************************************************************************)
(* The five strategy functions (lines 594-766).  The argument state is the *)
(* value that the get_strategy_state call of the function's first line     *)
(* returned: subscripting it raises TypeError when it is None.  inner is   *)
(* what the get_strategy_state calls made further down return for the      *)
(* asset's record (by set_risk_levels, and by the three strategies that    *)
(* combined_strategy polls): "Known" in the program.  levels is what       *)
(* calculate_risk_levels returns for the asset during the call.            *)
(***************************************************************************)
mean_reversion_strategy(inner, state, price, indicators, levels) ==
    IF state = NoneState THEN Ret("TypeError", state)
    ELSE IF state.no <= lookback_period THEN Ret("HOLD", state)
    ELSE IF ExitTestRaises(state, price) THEN Ret("TypeError", state)
    ELSE IF ExitTriggered(state, price) THEN Ret("SELL", state)
    ELSE IF /\ state.price_mean[1] > price * state.price_mean[2]
            /\ state.position_status = "CASH"
         THEN Enter(inner, state, price, levels)
    ELSE IF /\ price * state.price_mean[2] > state.price_mean[1]
            /\ state.position_status = "HOLDING"
         THEN IF price * 1000000 > state.buy_price * 1003
              THEN Ret("SELL", Exit(state))
              ELSE Ret("HOLD", state)
    ELSE Ret("HOLD", state)

macd_crossover_strategy(inner, state, price, indicators, levels) ==
    IF indicators = NoIndicators THEN Ret("HOLD", state)
    ELSE IF state = NoneState THEN Ret("TypeError", state)
    ELSE IF state.no <= lookback_period THEN Ret("HOLD", state)
    ELSE IF ExitTestRaises(state, price) THEN Ret("TypeError", state)
    ELSE IF ExitTriggered(state, price) THEN Ret("SELL", state)
    ELSE IF /\ indicators.macd > indicators.macd_signal
            /\ indicators.rsi < RSI_OVERBOUGHT
            /\ state.position_status = "CASH"
         THEN Enter(inner, state, price, levels)
    ELSE IF /\ indicators.macd < indicators.macd_signal
            /\ indicators.rsi > RSI_OVERSOLD
            /\ state.position_status = "HOLDING"
         THEN Ret("SELL", Exit(state))
    ELSE Ret("HOLD", state)

rsi_strategy(inner, state, price, indicators, levels) ==
    IF indicators = NoIndicators THEN Ret("HOLD", state)
    ELSE IF state = NoneState THEN Ret("TypeError", state)
    ELSE IF state.no <= lookback_period THEN Ret("HOLD", state)
    ELSE IF ExitTestRaises(state, price) THEN Ret("TypeError", state)
    ELSE IF ExitTriggered(state, price) THEN Ret("SELL", state)
    ELSE IF /\ indicators.rsi < RSI_OVERSOLD
            /\ indicators.stoch_k < 20
            /\ indicators.stoch_k > indicators.stoch_d
            /\ state.position_status = "CASH"
         THEN Enter(inner, state, price, levels)
    ELSE IF /\ indicators.rsi > RSI_OVERBOUGHT
            /\ indicators.stoch_k > 80
            /\ indicators.stoch_k < indicators.stoch_d
            /\ state.position_status = "HOLDING"
         THEN Ret("SELL", Exit(state))
    ELSE Ret("HOLD", state)

bollinger_bands_strategy(inner, state, price, indicators, levels) ==
    IF indicators = NoIndicators THEN Ret("HOLD", state)
    ELSE IF state = NoneState THEN Ret("TypeError", state)
    ELSE IF state.no <= lookback_period THEN Ret("HOLD", state)
    ELSE IF ExitTestRaises(state, price) THEN Ret("TypeError", state)
    ELSE IF ExitTriggered(state, price) THEN Ret("SELL", state)
    ELSE IF /\ price < indicators.bb_lower
            /\ indicators.rsi < RSI_OVERSOLD
            /\ state.position_status = "CASH"
         THEN Enter(inner, state, price, levels)
    ELSE IF /\ price > indicators.bb_upper
            /\ indicators.rsi > RSI_OVERBOUGHT
            /\ state.position_status = "HOLDING"
         THEN Ret("SELL", Exit(state))
    ELSE Ret("HOLD", state)

\* signals.count(x) of lines 748-749
Count(signals, x) == Cardinality({i \in DOMAIN signals : signals[i] = x})

RECURSIVE combined_strategy(_, _, _, _, _)

\* the strategy function of a given name
StrategyFunction(f, inner, state, price, indicators, levels) ==
    CASE f = "mean_reversion" ->
             mean_reversion_strategy(inner, state, price, indicators, levels)
      [] f = "macd_crossover" ->
             macd_crossover_strategy(inner, state, price, indicators, levels)
      [] f = "rsi_strategy" ->
             rsi_strategy(inner, state, price, indicators, levels)
      [] f = "bollinger_bands" ->
             bollinger_bands_strategy(inner, state, price, indicators, levels)
      [] f = "combined" ->
             combined_strategy(inner, state, price, indicators, levels)

\* the one element of a singleton: Only({e : x \in {v}}) is e with x
\* standing for the value of v, worked out once
Only(S) == CHOOSE x \in S : TRUE

\* The strategy functions named in order, from the i-th on, called one after
\* the other, each on the asset's record as the one before left it; rec is
\* the record when the i-th is called and signals what the earlier ones
\* returned.  The result is the sequence of what they returned, cut short
\* by the first that raised, and the record after.
RECURSIVE PollFrom(_, _, _, _, _, _, _, _)
PollFrom(order, i, signals, inner, rec, price, indicators, levels) ==
    IF i > Len(order) THEN Ret(signals, rec)
    ELSE Only({IF r.ret = "TypeError"
               THEN Ret(Append(signals, r.ret), After(r, rec))
               ELSE PollFrom(order, i + 1, Append(signals, r.ret), inner,
                             After(r, rec), price, indicators, levels) :
                  r \in {StrategyFunction(order[i], inner, Lookup(inner, rec),
                                          price, indicators, levels)}})

\* lines 742-746: the three functions combined_strategy calls, in order
CombinedRules == <<"macd_crossover", "rsi_strategy", "bollinger_bands">>

combined_strategy(inner, state, price, indicators, levels) ==
    IF indicators = NoIndicators THEN Ret("HOLD", state)
    ELSE IF state = NoneState THEN Ret("TypeError", state)
    ELSE IF state.no <= lookback_period THEN Ret("HOLD", state)
    ELSE IF ExitTestRaises(state, price) THEN Ret("TypeError", state)
    ELSE IF ExitTriggered(state, price) THEN Ret("SELL", state)
    ELSE Only({IF sub.ret[Len(sub.ret)] = "TypeError"
               THEN Ret("TypeError", sub.state)
               ELSE IF /\ Count(sub.ret, "BUY") >= 2
                       /\ sub.state.position_status = "CASH"
                    THEN Enter(inner, sub.state, price, levels)
               ELSE IF /\ Count(sub.ret, "SELL") >= 2
                       /\ sub.state.position_status = "HOLDING"
                    THEN Ret("SELL", Exit(sub.state))
               ELSE Ret("HOLD", sub.state) :
                  sub \in {PollFrom(CombinedRules, 1, <<>>, inner, state,
                                    price, indicators, levels)}})

\* the keys of the dict of lines 786-792, in order
StrategyOrder ==
    <<"mean_reversion", "macd_crossover", "rsi_strategy", "bollinger_bands",
      "combined">>

\* the position of a strategy in that order
StrategyIndex(f) == CHOOSE i \in DOMAIN StrategyOrder : StrategyOrder[i] = f

\* lines 786-792: the five functions called in the order of the dict
\* display; rec is the asset's record when the first is called
Poll(inner, rec, price, indicators, levels) ==
    PollFrom(StrategyOrder, 1, <<>>, inner, rec, price, indicators, levels)

\* lines 780-805 from the select_best_strategy call on.  selecting is the
\* value get_strategy_state returns inside select_best_strategy (line 579),
\* which line 590 subscripts; best is the strategy lines 582-589 pick.
\* strategy_performance and strategy_trade_count (lines 794-800) are not
\* part of the result.
generate_signal(inner, selecting, price, indicators, best, levels) ==
    IF selecting = NoneState THEN Ret("TypeError", selecting)
    ELSE Only({IF polled.ret[Len(polled.ret)] = "TypeError"
               THEN Ret("TypeError", polled.state)
               ELSE Ret(polled.ret[StrategyIndex(best)], polled.state) :
                  polled \in {Poll(inner,
                                   [selecting EXCEPT !.active_strategy = best],
                                   price, indicators, levels)}})

(***************************************************************************)
(* The inputs of the strategy specifications.                              *)
(***************************************************************************)
\* the buffer of an asset holds at most MaxSamples prices in SpecStrategy
MaxSamples == 2

StrategyCoins == {1, 2}
SamplePrices == {90, 100}
StrategyPrices == {90, 91, 100, 110}
\* np.std of the returns, in units of 10^-4
Volatilities == {0, 400}
\* the draws of random.choice (lines 524 and 583) the specifications take:
\* no operation of the model reads active_strategy except to return the
\* signal of that name
StrategyDraws == {"mean_reversion", "combined"}

\* indicator records: oversold, neutral or overbought RSI, MACD above or
\* below its signal line, and either bands above the low prices with a
\* stochastic turning up or bands below the high prices with a stochastic
\* turning down
Indicators ==
    {[rsi |-> r, macd |-> m[1], macd_signal |-> m[2],
      bb_upper |-> b[3], bb_middle |-> b[2], bb_lower |-> b[1],
      stoch_k |-> b[4], stoch_d |-> b[5]] :
        r \in {20, 50, 80},
        m \in {<<1, 0>>, <<0, 1>>},
        b \in {<<95, 100, 105, 10, 5>>, <<80, 85, 90, 90, 95>>}}

Neutral ==
    [rsi |-> 50, macd |-> 1, macd_signal |-> 0,
     bb_upper |-> 105, bb_middle |-> 100, bb_lower |-> 95,
     stoch_k |-> 50, stoch_d |-> 50]

\* what calculate_indicators can return for a buffer
IndicatorDraws(prices) ==
    IF Len(prices) < MaxPeriod + 1 THEN {NoIndicators} ELSE Indicators

\* the volatilities a buffer can have that calculate_risk_levels reads
VolatilityDraws(prices) == IF Len(prices) < 10 THEN {0} ELSE Volatilities

\* the draws of line 524: there is one only when the record is created
ActiveDraws(coin) ==
    IF strategies[coin] = Absent THEN StrategyDraws ELSE {"mean_reversion"}

\* the last strategy operation: its arguments, the asset's record before it
\* (state0) and what it returned or raised (ret)
StrategyOutcome(op, coin, price, indicators, ret, state0) ==
    [op |-> op, coin |-> coin, price |-> price, indicators |-> indicators,
     ret |-> ret, state0 |-> state0, outcome |-> "strategy"]

ledger_side ==
    <<ledger, n_keys, n_valuations, inflight, phase, pending, recent_scores,
      loop, retry>>

(***************************************************************************)
(* The calls of the Strategy Engine, as the program executes them.         *)
(***************************************************************************)
\* lines 528-530 as part of a call that looks the record of coin up
ScoresAfterGet(coin) ==
    /\ strategy_performance' =
          performance_after_get(strategies, strategy_performance, coin)
    /\ strategy_trade_count' =
          trade_count_after_get(strategies, strategy_performance,
                                strategy_trade_count, coin)

\* get_strategy_state(coin), lines 515-531
GetStrategyState(coin, active) ==
    /\ strategies' = strategies_after_get(strategies, coin, active)
    /\ last' = StrategyOutcome("get_strategy_state", coin, 0, NoIndicators,
                               get_strategy_state(strategies, coin, active),
                               strategies[coin])
    /\ ScoresAfterGet(coin)
    /\ UNCHANGED <<ledger_side, price_data>>

\* update_price_mean(coin, price), lines 569-576: the price is appended to
\* the buffer (line 571) before state is first subscripted (line 572)
UpdatePriceMean(coin, price, active) ==
    LET state == get_strategy_state(strategies, coin, active)
        created == strategies_after_get(strategies, coin, active)
    IN  /\ Len(price_data[coin]) < MaxSamples
        /\ price_data' =
              [price_data EXCEPT ![coin] = update_price_data(@, price)]
        /\ strategies' =
              IF state = NoneState
              THEN created
              ELSE [created EXCEPT ![coin] = update_price_mean(state, price)]
        /\ last' = StrategyOutcome("update_price_mean", coin, price,
                       NoIndicators,
                       IF state = NoneState THEN "TypeError" ELSE "None",
                       strategies[coin])
        /\ ScoresAfterGet(coin)
        /\ UNCHANGED ledger_side

\* generate_signal(coin, price), lines 780-805: line 781 creates the record
\* when there is none, so the call inside select_best_strategy (line 579)
\* always finds one
GenerateSignal(coin, price, active, best, drawn, volatility) ==
    LET created == strategies_after_get(strategies, coin, active)
        indicators == calculate_indicators(price_data[coin], drawn)
        selecting == get_strategy_state(created, coin, active)
        levels == calculate_risk_levels(price_data[coin], volatility)
        r == generate_signal("Known", selecting, price, indicators, best,
                             levels)
    IN  /\ strategies' =
              IF r.state = NoneState
              THEN created
              ELSE [created EXCEPT ![coin] = r.state]
        /\ last' = StrategyOutcome("generate_signal", coin, price, indicators,
                                   r.ret, strategies[coin])
        \* line 590 raises before the loop of lines 795-800 is reached
        /\ ScoresAfterGet(coin)
        /\ UNCHANGED <<ledger_side, price_data>>

\* lines 585-589: the first strategy, in the order of the score table, whose
\* performance / (trade_count or 1) no other strategy exceeds; the trade
\* counts are naturals, so the quotients are compared by cross-multiplying
best_by_score(perf, counts) ==
    LET divisor(f) == IF counts[f] = 0 THEN 1 ELSE counts[f]
        maximal(f) == \A g \in available_strategies :
                         perf[f] * divisor(g) >= perf[g] * divisor(f)
        first == CHOOSE i \in DOMAIN StrategyOrder :
                    /\ maximal(StrategyOrder[i])
                    /\ \A j \in 1..(i - 1) : ~maximal(StrategyOrder[j])
    IN  StrategyOrder[first]

\* select_best_strategy(coin), lines 578-592: explore is the outcome of
\* `random.random() < epsilon` (line 582) and choice the draw of line 583;
\* line 590 subscripts the value get_strategy_state returned
SelectBestStrategy(coin, explore, choice, active) ==
    LET state == get_strategy_state(strategies, coin, active)
        created == strategies_after_get(strategies, coin, active)
        perf == performance_after_get(strategies, strategy_performance, coin)
        counts == trade_count_after_get(strategies, strategy_performance,
                                        strategy_trade_count, coin)
        best_strategy == IF explore THEN choice
                         ELSE best_by_score(perf[coin], counts[coin])
    IN  /\ strategies' =
              IF state = NoneState
              THEN created
              ELSE [created EXCEPT ![coin].active_strategy = best_strategy]
        /\ last' = StrategyOutcome("select_best_strategy", coin, 0,
                       NoIndicators,
                       IF state = NoneState THEN "TypeError"
                       ELSE best_strategy,
                       strategies[coin])
        /\ ScoresAfterGet(coin)
        /\ UNCHANGED <<ledger_side, price_data>>

\* a direct call f(coin, price, indicators) of one of the five strategy
\* functions
StrategyCall(f, coin, price, indicators, active, volatility) ==
    LET state == get_strategy_state(strategies, coin, active)
        created == strategies_after_get(strategies, coin, active)
        levels == calculate_risk_levels(price_data[coin], volatility)
        r == StrategyFunction(f, "Known", state, price, indicators, levels)
    IN  /\ strategies' =
              IF r.state = NoneState
              THEN created
              ELSE [created EXCEPT ![coin] = r.state]
        /\ last' = StrategyOutcome(f, coin, price, indicators, r.ret,
                                   strategies[coin])
        /\ ScoresAfterGet(coin)
        /\ UNCHANGED <<ledger_side, price_data>>

NextStrategy ==
    \/ \E coin \in StrategyCoins : \E active \in ActiveDraws(coin) :
          GetStrategyState(coin, active)
    \/ \E coin \in StrategyCoins, price \in SamplePrices :
          \E active \in ActiveDraws(coin) :
             UpdatePriceMean(coin, price, active)
    \/ \E coin \in StrategyCoins, price \in SamplePrices,
          best \in StrategyDraws :
          \E active \in ActiveDraws(coin),
             drawn \in IndicatorDraws(price_data[coin]),
             volatility \in VolatilityDraws(price_data[coin]) :
             GenerateSignal(coin, price, active, best, drawn, volatility)
    \/ \E f \in available_strategies, coin \in StrategyCoins,
          price \in SamplePrices, indicators \in {NoIndicators, Neutral} :
          \E active \in ActiveDraws(coin),
             volatility \in VolatilityDraws(price_data[coin]) :
             StrategyCall(f, coin, price, indicators, active, volatility)
    \/ \E coin \in StrategyCoins, explore \in BOOLEAN,
          choice \in StrategyDraws :
          \E active \in ActiveDraws(coin) :
             SelectBestStrategy(coin, explore, choice, active)

SpecStrategy == Init /\ [][NextStrategy]_vars

(***************************************************************************)
(* The bodies of the strategy functions on a record past its warm-up.      *)
(* In SpecStrategy no strategy function gets past its warm-up test: the    *)
(* record get_strategy_state returns has no = 0, and for an asset that has *)
(* a record it returns None.  SpecBody starts from an asset whose record   *)
(* counts lookback_period + 1 observations and applies each function with  *)
(* state bound to that record, which is what lines 596-766 work on once    *)
(* state is the record.                                                    *)
(***************************************************************************)
WarmMeans == {<<100, 1>>, <<181, 2>>}

WarmRecords ==
    {[NewStrategyState(active) EXCEPT !.no = lookback_period + 1,
                                      !.price_mean = mean] :
        active \in {"mean_reversion"}, mean \in WarmMeans}

WarmBuffer == [i \in 1..(MaxPeriod + 1) |-> 100]

\* the score tables of an asset whose record has just been created
WarmScores ==
    /\ strategy_performance =
          [c \in Coins |-> IF c = 1
                           THEN [f \in available_strategies |-> 100]
                           ELSE Absent]
    /\ strategy_trade_count =
          [c \in Coins |-> IF c = 1
                           THEN [f \in available_strategies |-> 1]
                           ELSE Absent]

InitBody ==
    /\ LedgerInit
    /\ strategies \in {[c \in Coins |-> IF c = 1 THEN rec ELSE Absent] :
                          rec \in WarmRecords}
    /\ price_data = [c \in Coins |-> IF c = 1 THEN WarmBuffer ELSE <<>>]
    /\ WarmScores

StrategyBody(f, coin, price, indicators, volatility) ==
    LET levels == calculate_risk_levels(price_data[coin], volatility)
        r == StrategyFunction(f, "Same", strategies[coin], price, indicators,
                              levels)
    IN  /\ strategies[coin] # Absent
        /\ strategies' = [strategies EXCEPT ![coin] = r.state]
        /\ last' = StrategyOutcome(f, coin, price, indicators, r.ret,
                                   strategies[coin])
        /\ UNCHANGED <<ledger_side, price_data, scores>>

NextBody ==
    \E f \in available_strategies, price \in StrategyPrices,
       indicators \in Indicators \cup {NoIndicators},
       volatility \in Volatilities :
       StrategyBody(f, 1, price, indicators, volatility)

SpecBody == InitBody /\ [][NextBody]_vars

(***************************************************************************)
(* The strategy functions from their second line on, as the program has    *)
(* them: state is the asset's record, as on the call that creates it, and  *)
(* the get_strategy_state calls made further down return what the program  *)
(* returns for an asset that has a record.  SpecEntry starts, like         *)
(* SpecBody, from a record past its warm-up.                               *)
(***************************************************************************)
StrategyEntry(f, coin, price, indicators, volatility) ==
    LET levels == calculate_risk_levels(price_data[coin], volatility)
        r == StrategyFunction(f, "Known", strategies[coin], price, indicators,
                              levels)
    IN  /\ strategies[coin] # Absent
        /\ strategies' = [strategies EXCEPT ![coin] = r.state]
        /\ last' = StrategyOutcome(f, coin, price, indicators, r.ret,
                                   strategies[coin])
        /\ UNCHANGED <<ledger_side, price_data, scores>>

NextEntry ==
    \E f \in available_strategies, price \in StrategyPrices,
       indicators \in Indicators \cup {NoIndicators},
       volatility \in Volatilities :
       StrategyEntry(f, 1, price, indicators, volatility)

\* records of assets that are HOLDING: a record past its warm-up after an
\* entry at price 91 with the risk levels of a buffer of given volatility
HeldRecords ==
    {Enter("Same", rec, 91,
           calculate_risk_levels(WarmBuffer, volatility)).state :
        rec \in WarmRecords, volatility \in Volatilities}

InitEntry ==
    /\ LedgerInit
    /\ strategies \in {[c \in Coins |-> IF c = 1 THEN rec ELSE Absent] :
                          rec \in WarmRecords \cup HeldRecords}
    /\ price_data = [c \in Coins |-> IF c = 1 THEN WarmBuffer ELSE <<>>]
    /\ WarmScores

SpecEntry == InitEntry /\ [][NextEntry]_vars

(***************************************************************************)
(* generate_signal on a record past its warm-up, CASH or HOLDING as in     *)
(* SpecEntry, with every lookup of the asset's record giving the record:   *)
(* the cycle lines 782-805 describe once get_strategy_state hands the      *)
(* record back.  In SpecStrategy the call never gets past line 590.        *)
(***************************************************************************)
\* SpecCycle follows an asset until MaxTrades signals have been counted in
\* its strategy_trade_count
MaxTrades == 1

\* the signals counted in a table of trade counts, which start at 1
RECURSIVE CountedTrades(_, _)
CountedTrades(counts, i) ==
    IF i > Len(StrategyOrder) THEN 0
    ELSE counts[StrategyOrder[i]] - 1 + CountedTrades(counts, i + 1)

\* line 797: ((price / buy_price) - 1) * 100 in thousandths of a percentage
\* point, rounded down; buy_price is in thousandths of a price unit
SignalProfitPct(price, buy_price) ==
    ((price * 1000 - buy_price) * 100000) \div buy_price

\* lines 795-800 from the i-th signal on: state is the asset's record after
\* all five strategy functions have run, tables the pair of the asset's
\* scores and trade counts so far
RECURSIVE UpdatePerformance(_, _, _, _, _)
UpdatePerformance(tables, signals, i, state, price) ==
    IF i > Len(signals) THEN tables
    ELSE Only({UpdatePerformance(updated, signals, i + 1, state, price) :
                  updated \in
                     {IF /\ signals[i] = "SELL"
                         /\ state.position_status = "HOLDING"
                         /\ state.buy_price # None
                         /\ state.buy_price # 0
                      THEN update_strategy_performance(tables[1], tables[2],
                               StrategyOrder[i], signals[i],
                               SignalProfitPct(price, state.buy_price))
                      ELSE IF signals[i] = "BUY"
                           THEN update_strategy_performance(tables[1],
                                    tables[2], StrategyOrder[i], signals[i],
                                    0)
                           ELSE tables}})

\* the last generate_signal call: as StrategyOutcome, with the signals of
\* the five strategy functions and the score tables before the call
CycleOutcome(coin, price, indicators, ret, state0, signals, tables0) ==
    [op |-> "generate_signal", coin |-> coin, price |-> price,
     indicators |-> indicators, ret |-> ret, state0 |-> state0,
     outcome |-> "strategy", signals |-> signals, tables0 |-> tables0]

GenerateSignalCycle(coin, price, best, drawn, volatility) ==
    /\ strategies[coin] # Absent
    /\ CountedTrades(strategy_trade_count[coin], 1) < MaxTrades
    /\ \E indicators \in {calculate_indicators(price_data[coin], drawn)},
          levels \in {calculate_risk_levels(price_data[coin], volatility)},
          tables0 \in {<<strategy_performance[coin],
                         strategy_trade_count[coin]>>} :
          \E polled \in {Poll("Same",
                              [strategies[coin] EXCEPT
                                  !.active_strategy = best],
                              price, indicators, levels)},
             r \in {generate_signal("Same", strategies[coin], price,
                                    indicators, best, levels)} :
             \E tables \in {UpdatePerformance(tables0, polled.ret, 1,
                                              polled.state, price)} :
                /\ r.ret # "TypeError"
                /\ strategies' = [strategies EXCEPT ![coin] = r.state]
                /\ strategy_performance' =
                      [strategy_performance EXCEPT ![coin] = tables[1]]
                /\ strategy_trade_count' =
                      [strategy_trade_count EXCEPT ![coin] = tables[2]]
                /\ last' = CycleOutcome(coin, price, indicators, r.ret,
                                        strategies[coin], polled.ret, tables0)
    /\ UNCHANGED <<ledger_side, price_data>>

\* the prices and the indicator records of the cycles: a quiet market (RSI
\* neutral, MACD above or below its signal line), an oversold one and an
\* overbought one
CyclePrices == {90, 100, 110}

CycleIndicators ==
    {ind \in Indicators :
        \/ ind.rsi = 50 /\ ind.bb_lower = 95
        \/ ind.rsi = 20 /\ ind.bb_lower = 95 /\ ind.macd < ind.macd_signal
        \/ ind.rsi = 80 /\ ind.bb_lower = 80 /\ ind.macd < ind.macd_signal}

NextCycle ==
    \E price \in CyclePrices, best \in available_strategies,
       drawn \in CycleIndicators, volatility \in Volatilities :
       GenerateSignalCycle(1, price, best, drawn, volatility)

SpecCycle == InitEntry /\ [][NextCycle]_vars

(***************************************************************************)
(* The risk-level specification: calculate_risk_levels called on every     *)
(* buffer of up to MaxBuffer prices, its volatility computed as line 496    *)
(* computes it.  A return is kept in units of 10^-4 and the deviation to a  *)
(* multiple of 4 units, so that 1.5 times it and 2.5 times the stop-loss   *)
(* are whole numbers of units.                                             *)
(***************************************************************************)
\* the longest buffer the risk-level specification draws
MaxBuffer == 11

RiskPrices == {100, 110}

\* line 495: np.diff(prices) / prices[:-1], in units of 10^-4
Returns(prices) ==
    [i \in 1..(Len(prices) - 1) |->
        ((prices[i + 1] - prices[i]) * 10000) \div prices[i]]

RECURSIVE SumFrom(_, _)
SumFrom(xs, i) == IF i > Len(xs) THEN 0 ELSE xs[i] + SumFrom(xs, i + 1)

RECURSIVE SumSquaresFrom(_, _)
SumSquaresFrom(xs, i) ==
    IF i > Len(xs) THEN 0 ELSE xs[i] * xs[i] + SumSquaresFrom(xs, i + 1)

\* the largest r in lo..hi with r * r <= n
RECURSIVE SqrtBetween(_, _, _)
SqrtBetween(n, lo, hi) ==
    IF lo >= hi THEN lo
    ELSE LET mid == (lo + hi + 1) \div 2
         IN  IF mid * mid <= n THEN SqrtBetween(n, mid, hi)
             ELSE SqrtBetween(n, lo, mid - 1)

\* line 496: np.std(returns), the population deviation, or 0.01 when there
\* is no return
np_std(xs) ==
    IF Len(xs) = 0 THEN 100
    ELSE LET n == Len(xs)
             variance == (n * SumSquaresFrom(xs, 1)
                          - SumFrom(xs, 1) * SumFrom(xs, 1)) \div (n * n)
         IN  4 * (SqrtBetween(variance, 0, 10000) \div 4)

\* the buffers self.price_data can hold for an asset
Buffers == UNION {[1..n -> RiskPrices] : n \in 0..MaxBuffer}

InitRisk ==
    /\ LedgerInit
    /\ strategies = [c \in Coins |-> Absent]
    /\ \E coin \in StrategyCoins, prices \in Buffers :
          price_data = [c \in Coins |-> IF c = coin THEN prices ELSE <<>>]
    /\ strategy_performance = [c \in Coins |-> Absent]
    /\ strategy_trade_count = [c \in Coins |-> Absent]

\* calculate_risk_levels(coin, entry_price), lines 488-505
CalculateRiskLevels(coin, entry_price) ==
    /\ last' = StrategyOutcome("calculate_risk_levels", coin, entry_price,
                   NoIndicators,
                   calculate_risk_levels(price_data[coin],
                                         np_std(Returns(price_data[coin]))),
                   strategies[coin])
    /\ UNCHANGED <<ledger_side, strategies, price_data, scores>>

NextRisk ==
    \E coin \in StrategyCoins, entry_price \in RiskPrices :
       CalculateRiskLevels(coin, entry_price)

SpecRisk == InitRisk /\ [][NextRisk]_vars

(***************************************************************************)
(* The Asset Scorer, CoinSelector (lines 261-470).                         *)
(*                                                                         *)
(* A score is kept in thousandths, a profit_pct in thousandths of a        *)
(* percentage point.  The price file and the trade file of an asset are    *)
(* the environment's: a call is given their contents as it reads them.     *)
(* The long-term metrics of lines 425-430 are never obtained: for a pair   *)
(* of ticker_mapping, calculate_historical_metrics subscripts the empty    *)
(* dictionary self.price_history (lines 264, 381) and raises KeyError.     *)
(***************************************************************************)
MIN_SCORE_THRESHOLD == 100
MIN_PROFIT_SCORE == 10000
\* line 436: the length of the recent-score window
WINDOW == 100

SelectorCoins == {1, 2, 3}
\* the assets whose pair is a key of ticker_mapping (lines 269-341)
ticker_mapping == {1}

\* a record of the trade file: a BUY has no profit_pct (lines 887-899)
BuyTrade == [sell |-> FALSE, profit_pct |-> 0]
SellTrade(profit_pct) == [sell |-> TRUE, profit_pct |-> profit_pct]

\* lines 408-413 with the formula applied to every non-empty history
short_term_term_always(price_history) ==
    IF Len(price_history) >= 1
    THEN LET n == Len(price_history)
             total == SumFrom(price_history, 1)
             dev == n * SumSquaresFrom(price_history, 1) - total * total
         IN  (5000 * SqrtBetween(100 * dev, 0, 46340)) \div total
    ELSE 100

\* lines 408-413: the short-term volatility term, 50 * std / mean with
\* std / mean = sqrt(n * sum(p^2) - sum(p)^2) / sum(p)
short_term_term(price_history) ==
    IF Len(price_history) >= 10
    THEN LET n == Len(price_history)
             total == SumFrom(price_history, 1)
             dev == n * SumSquaresFrom(price_history, 1) - total * total
         IN  (5000 * SqrtBetween(100 * dev, 0, 46340)) \div total
    ELSE 100

\* lines 415-422: avg_profit * 10 + win_rate * 20, or 0.2 without a file
trade_term(trade_history) ==
    IF Len(trade_history) = 0 THEN 200
    ELSE LET sells == SelectSeq(trade_history, LAMBDA t : t.sell)
             wins == SelectSeq(sells, LAMBDA t : t.profit_pct > 0)
             profits == [i \in 1..Len(sells) |-> sells[i].profit_pct]
         IN  IF Len(sells) = 0 THEN 0 + 10000
             ELSE (10 * SumFrom(profits, 1)) \div Len(sells)
                     + (20000 * Len(wins)) \div Len(sells)

\* what a calculate_coin_score call gives: the score it returns, or the
\* KeyError of line 381
Scored(score) == [raised |-> FALSE, score |-> score]
KeyError == [raised |-> TRUE, score |-> 0]

\* lines 405-434 without the floor of line 434
calculate_coin_score_unfloored(coin, price_history, trade_history) ==
    IF coin \in ticker_mapping THEN KeyError
    ELSE Scored(short_term_term(price_history)
                   + trade_term(trade_history) + 100)

\* lines 405-434: the score of an asset, floored at MIN_SCORE_THRESHOLD
calculate_coin_score(coin, price_history, trade_history) ==
    IF coin \in ticker_mapping THEN KeyError
    ELSE Scored(Max(short_term_term(price_history)
                       + trade_term(trade_history) + 100,
                    MIN_SCORE_THRESHOLD))

\* lines 435-437: the window after a score is returned
window_after(window, score) ==
    LET appended == Append(window, score)
    IN  IF Len(appended) > WINDOW THEN Tail(appended) ELSE appended

\* the k-th smallest score of a window
Kth(window, k) ==
    CHOOSE v \in {window[i] : i \in 1..Len(window)} :
       /\ Cardinality({i \in 1..Len(window) : window[i] < v}) < k
       /\ Cardinality({i \in 1..Len(window) : window[i] <= v}) >= k

\* lines 440-444, four times the threshold: np.percentile(window, 75)
\* interpolates linearly at position 0.75 * (n - 1) of the sorted window
get_dynamic_score_threshold_x4(window) ==
    IF Len(window) = 0 THEN 4 * MIN_PROFIT_SCORE
    ELSE LET m == 3 * (Len(window) - 1)
             lo == Kth(window, m \div 4 + 1)
             hi == IF m % 4 = 0 THEN lo ELSE Kth(window, m \div 4 + 2)
         IN  4 * lo + (m % 4) * (hi - lo)

\* line 464, four times the bar
min_profit_score_x4(window) ==
    Max(4 * MIN_PROFIT_SCORE, get_dynamic_score_threshold_x4(window))

\* lines 458-462: the scoring loop from the i-th pair on; it ends at the
\* first call that raises
RECURSIVE ScoreLoop(_, _, _, _, _)
ScoreLoop(pairs, i, files, window, coin_scores) ==
    IF i > Len(pairs)
    THEN [raised |-> FALSE, window |-> window, coin_scores |-> coin_scores]
    ELSE LET r == Only({calculate_coin_score(pairs[i], f.prices, f.trades) :
                           f \in {files[pairs[i]]}})
         IN  IF r.raised
             THEN [raised |-> TRUE, window |-> window,
                   coin_scores |-> coin_scores]
             ELSE ScoreLoop(pairs, i + 1, files,
                            window_after(window, r.score),
                            Append(coin_scores, <<pairs[i], r.score>>))

\* line 465: sort(key = score, reverse = True), which keeps the order of
\* equal scores
RECURSIVE SortedByScore(_)
SortedByScore(coin_scores) ==
    IF Len(coin_scores) = 0 THEN <<>>
    ELSE LET top == CHOOSE i \in 1..Len(coin_scores) :
                       /\ \A j \in 1..Len(coin_scores) :
                             coin_scores[j][2] <= coin_scores[i][2]
                       /\ \A j \in 1..(i - 1) :
                             coin_scores[j][2] < coin_scores[i][2]
         IN  <<coin_scores[top]>>
                \o SortedByScore([j \in 1..(Len(coin_scores) - 1) |->
                       IF j < top THEN coin_scores[j] ELSE coin_scores[j + 1]])

\* lines 464-468: the assets at or above the bar, or the top one
selected_of(coin_scores, window) ==
    LET sorted == SortedByScore(coin_scores)
        bar == min_profit_score_x4(window)
        above == SelectSeq(sorted, LAMBDA cs : 4 * cs[2] >= bar)
        chosen == IF Len(above) = 0 /\ Len(sorted) > 0
                  THEN <<sorted[1]>> ELSE above
    IN  [i \in 1..Len(chosen) |-> chosen[i][1]]

\* lines 464-468 without the fallback of lines 467-468
selected_of_no_fallback(coin_scores, window) ==
    LET sorted == SortedByScore(coin_scores)
        bar == min_profit_score_x4(window)
        above == SelectSeq(sorted, LAMBDA cs : 4 * cs[2] >= bar)
    IN  [i \in 1..Len(above) |-> above[i][1]]

\* an asset without a price file and without a trade file
NoFile == [prices |-> <<>>, trades |-> <<>>]

\* BTC of line 449, which is a key of ticker_mapping
BTC == 1

\* the CoinSelector calls made so far
SelectorCalls ==
    IF last.op \in {"calculate_coin_score", "select_coins"}
    THEN last.calls ELSE 0

\* the last CoinSelector operation: the pairs or the asset it was given,
\* the files it read for the asset, the window before it, and what it
\* returned
SelectorOutcome(op, pairs, file, outcome, selected, coin_scores) ==
    [op |-> op, pairs |-> pairs, file |-> file, outcome |-> outcome,
     selected |-> selected, coin_scores |-> coin_scores,
     window0 |-> recent_scores, calls |-> SelectorCalls + 1]

selector_side ==
    <<ledger, n_keys, n_valuations, inflight, phase, pending, strategies,
      price_data, scores, loop, retry>>

\* calculate_coin_score(coin, pair), lines 405-438
CalculateCoinScore(coin, files) ==
    \E r \in {calculate_coin_score(coin, files[coin].prices,
                                    files[coin].trades)} :
       /\ recent_scores' =
             IF r.raised THEN recent_scores
             ELSE window_after(recent_scores, r.score)
       /\ last' = SelectorOutcome("calculate_coin_score", <<coin>>,
                      files[coin],
                      IF r.raised THEN "KeyError" ELSE "returned", <<>>,
                      IF r.raised THEN <<>> ELSE <<<<coin, r.score>>>>)
       /\ UNCHANGED selector_side

\* select_coins(), lines 446-470: pairs is what list_of_coins returned
SelectCoins(pairs, files) ==
    IF Len(pairs) = 0
    THEN /\ last' = SelectorOutcome("select_coins", pairs, NoFile, "returned",
                        <<BTC>>, <<>>)
         /\ UNCHANGED <<selector_side, recent_scores>>
    ELSE \E r \in {ScoreLoop(pairs, 1, files, recent_scores, <<>>)} :
            /\ recent_scores' = r.window
            /\ last' = SelectorOutcome("select_coins", pairs, NoFile,
                           IF r.raised THEN "KeyError" ELSE "returned",
                           IF r.raised THEN <<>>
                           ELSE selected_of(r.coin_scores, r.window),
                           r.coin_scores)
            /\ UNCHANGED selector_side

\* calls of the Asset Scorer the selector specification explores
MaxSelectorCalls == 2

\* price files: five points, ten calm points, ten wild points
PriceFiles ==
    {<<100, 101, 99, 102, 98>>,
     <<100, 101, 99, 102, 98, 100, 101, 99, 102, 98>>,
     <<60, 140, 60, 140, 60, 140, 60, 140, 60, 140>>}

\* trade files: none, an open position, a losing sale, a winning sale
TradeFiles ==
    {<<>>, <<BuyTrade>>, <<BuyTrade, SellTrade(-2000)>>,
     <<BuyTrade, SellTrade(1000)>>}

\* the files of the assets: those of one asset vary and the others have
\* none, or all assets have files of the same contents
FileDraws ==
    {[c \in SelectorCoins |->
         IF c \in coins THEN [prices |-> prices, trades |-> trades]
         ELSE NoFile] :
        coins \in {{2}, SelectorCoins},
        prices \in PriceFiles, trades \in TradeFiles}

\* what list_of_coins returns (lines 194-200)
PairLists == {<<>>, <<2>>, <<2, 3>>, <<3, 2>>, <<2, 1, 3>>}

\* windows the selector can have built up: none, 99 scores of assets
\* without files, 100 scores of an asset with an open position
Windows ==
    {<<>>, [i \in 1..(WINDOW - 1) |-> 400], [i \in 1..WINDOW |-> 10200]}

InitSelector ==
    /\ BotInit
    /\ recent_scores \in Windows
    /\ strategies = [c \in Coins |-> Absent]
    /\ price_data = [c \in Coins |-> <<>>]
    /\ strategy_performance = [c \in Coins |-> Absent]
    /\ strategy_trade_count = [c \in Coins |-> Absent]

NextSelector ==
    \/ /\ SelectorCalls < MaxSelectorCalls
       /\ \E coin \in SelectorCoins, files \in FileDraws :
             CalculateCoinScore(coin, files)
    \/ /\ SelectorCalls < MaxSelectorCalls
       /\ \E pairs \in PairLists, files \in FileDraws :
             SelectCoins(pairs, files)

SpecSelector == InitSelector /\ [][NextSelector]_vars

(***************************************************************************)
(* The evaluation loop of run_simulation (lines 962-1000).                 *)
(*                                                                         *)
(* A step is either a call the loop makes, which is the action of the      *)
(* callee, or what run_simulation does itself between two calls: it reads  *)
(* how the call ended and moves on.  loop.pc names the call being made;    *)
(* last.op is "run_simulation" until the callee has run.  simulate_trade   *)
(* is not among the calls: generate_signal raises at line 590 whenever it  *)
(* is called, so line 986 is never reached.                                *)
(***************************************************************************)
\* iterations of the while loop the loop specification explores
MaxCycles == 2

\* what run_simulation did between two calls
LoopOutcome(coin, outcome) ==
    [op |-> "run_simulation", coin |-> coin, outcome |-> outcome]

\* lines 996-998 in the place of lines 988-989: the cycle is abandoned
skip_cycle(l) ==
    [l EXCEPT !.pc = "start", !.rest = <<>>, !.cycles = @ + 1]

\* lines 988-989: the for loop goes on with the assets it has still to visit
skip_asset(l) == [l EXCEPT !.pc = "for"]

\* the variables run_simulation's own lines leave alone
callee_side ==
    <<ledger, n_keys, inflight, phase, pending, strategies, price_data,
      scores, recent_scores, retry>>

\* line 963: the while loop begins an iteration
StartCycle ==
    /\ loop.pc = "start"
    /\ loop.cycles < MaxCycles
    /\ loop' = [loop EXCEPT !.pc = "select_coins"]
    /\ last' = LoopOutcome(0, "cycle")
    /\ UNCHANGED <<callee_side, n_valuations>>

\* lines 964-968 and 996-998: select_coins has returned its selection, or
\* raised into the handler of the while loop
AfterSelect ==
    /\ loop.pc = "select_coins"
    /\ last.op = "select_coins"
    /\ IF last.outcome = "returned"
       THEN /\ loop' = [loop EXCEPT !.pc = "for", !.rest = last.selected]
            /\ last' = LoopOutcome(0, "selected")
       ELSE /\ loop' = skip_cycle(loop)
            /\ last' = LoopOutcome(0, "cycle_caught")
    /\ UNCHANGED <<callee_side, n_valuations>>

\* what get_ticker returns (lines 202-213): None, a response without
\* Success, a response without the pair's price, or a price
Tickers == {"None", "unsuccessful", "malformed", "price"}

\* lines 969-973 and 988-989: the for loop takes its next asset and asks
\* for its ticker
GetTicker(ticker, price) ==
    /\ loop.pc = "for"
    /\ loop.rest # <<>>
    /\ loop' =
          IF ticker = "price"
          THEN [loop EXCEPT !.pc = "calculate_coin_score",
                            !.rest = Tail(loop.rest),
                            !.coin = Head(loop.rest), !.price = price]
          ELSE skip_asset([loop EXCEPT !.rest = Tail(loop.rest),
                                       !.coin = Head(loop.rest),
                                       !.price = 0])
    /\ last' = LoopOutcome(Head(loop.rest),
                   IF ticker = "price" THEN "ticker"
                   ELSE IF ticker = "malformed" THEN "asset_caught"
                   ELSE "asset_skipped")
    /\ UNCHANGED <<callee_side, n_valuations>>

\* lines 980-981 and 988-989: a call made for the asset has returned, or
\* raised into the handler of the for loop
AfterCall ==
    /\ loop.pc \in {"calculate_coin_score", "update_price_mean",
                    "generate_signal"}
    /\ last.op = loop.pc
    /\ \E returned \in
            {IF loop.pc = "calculate_coin_score"
             THEN last.outcome = "returned"
             ELSE last.ret \in {"None", "HOLD"}} :
          /\ loop' =
                IF returned /\ loop.pc = "calculate_coin_score"
                THEN [loop EXCEPT !.pc = "update_price_mean"]
                ELSE IF returned /\ loop.pc = "update_price_mean"
                THEN [loop EXCEPT !.pc = "generate_signal"]
                ELSE skip_asset(loop)
          /\ last' = LoopOutcome(loop.coin,
                         IF ~returned THEN "asset_caught"
                         ELSE IF loop.pc = "generate_signal" THEN "asset_done"
                         ELSE "returned")
    /\ UNCHANGED <<callee_side, n_valuations>>

\* lines 991-993 and 998: the valuation that ends a cycle, and the sleep
EndCycle ==
    /\ loop.pc = "for"
    /\ loop.rest = <<>>
    /\ n_valuations' = n_valuations + 1
    /\ loop' = [loop EXCEPT !.pc = "start", !.cycles = @ + 1]
    /\ last' = LoopOutcome(0, "cycle_end")
    /\ UNCHANGED callee_side

\* line 1000: KeyboardInterrupt reaches the handler outside the loop
LoopInterrupt ==
    /\ loop.pc # "interrupted"
    /\ loop' = [loop EXCEPT !.pc = "interrupted"]
    /\ last' = LoopOutcome(loop.coin, "KeyboardInterrupt")
    /\ UNCHANGED <<callee_side, n_valuations>>

\* what list_of_coins returns and the files the scorer reads in the loop
LoopPairLists == {<<>>, <<2, 3>>, <<2, 1, 3>>}
LoopFiles ==
    {[c \in SelectorCoins |-> NoFile],
     [c \in SelectorCoins |-> [prices |-> <<>>, trades |-> <<BuyTrade>>]]}

NextLoop ==
    \/ StartCycle
    \/ /\ loop.pc = "select_coins"
       /\ last.op = "run_simulation"
       /\ \E pairs \in LoopPairLists, files \in LoopFiles :
             SelectCoins(pairs, files)
    \/ AfterSelect
    \/ \E ticker \in Tickers, price \in SamplePrices : GetTicker(ticker, price)
    \/ /\ loop.pc = "calculate_coin_score"
       /\ last.op = "run_simulation"
       /\ \E files \in LoopFiles : CalculateCoinScore(loop.coin, files)
    \/ /\ loop.pc = "update_price_mean"
       /\ last.op = "run_simulation"
       /\ \E active \in ActiveDraws(loop.coin) :
             UpdatePriceMean(loop.coin, loop.price, active)
    \/ /\ loop.pc = "generate_signal"
       /\ last.op = "run_simulation"
       /\ \E active \in ActiveDraws(loop.coin),
             drawn \in IndicatorDraws(price_data[loop.coin]),
             volatility \in VolatilityDraws(price_data[loop.coin]) :
             GenerateSignal(loop.coin, loop.price, active, "mean_reversion",
                            drawn, volatility)
    \/ AfterCall
    \/ EndCycle
    \/ LoopInterrupt

SpecLoop == Init /\ [][NextLoop]_vars

(***************************************************************************)
(* The wrapper retry_on_rate_limit builds (lines 22-39).  A step is the    *)
(* call of the wrapper, one iteration of its while loop, or the return     *)
(* that follows the loop.                                                  *)
(***************************************************************************)
\* the wrapper is built with max_retries in 0..MaxRetries: 3 is the default
\* of line 22 and 5 the argument of line 348
MaxRetries == 5

\* initial_delay: the argument of line 348 and the default of line 22
InitialDelays == {10, 30}

\* what a call of the wrapped function does (line 30): it returns a value,
\* for fetch_historical_data a frame (line 374) or None (lines 370, 377), it
\* raises YFRateLimitError, or it raises another exception
CallOutcomes == {"frame", "None", "YFRateLimitError", "Exception"}

\* line 35 without the doubling
backoff_constant(delay) == delay

\* line 35: delay *= 2
backoff(delay) == delay * 2

retry_side ==
    <<ledger, n_keys, n_valuations, inflight, phase, pending, strategies,
      price_data, scores, recent_scores, loop, last>>

\* lines 25-27: the wrapper is called
Wrapper(max_retries, initial_delay) ==
    /\ retry.pc # "loop"
    /\ retry' = [pc |-> "loop", max_retries |-> max_retries,
                 initial_delay |-> initial_delay, retries |-> 0,
                 delay |-> initial_delay, calls |-> 0, outcome |-> "none",
                 ret |-> "none"]
    /\ UNCHANGED retry_side

\* lines 28-35: one iteration of the while loop.  A value is returned at
\* line 30; YFRateLimitError is caught at line 31, the wrapper sleeps for
\* delay seconds and counts the retry; another exception leaves the wrapper
RetryCall(outcome) ==
    /\ retry.pc = "loop"
    /\ retry.retries < retry.max_retries
    /\ retry' =
          IF outcome = "YFRateLimitError"
          THEN [retry EXCEPT !.calls = @ + 1, !.outcome = outcome,
                             !.retries = @ + 1, !.delay = backoff(@)]
          ELSE [retry EXCEPT !.calls = @ + 1, !.outcome = outcome,
                             !.ret = outcome,
                             !.pc = IF outcome = "Exception"
                                    THEN "raised" ELSE "returned"]
    /\ UNCHANGED retry_side

\* lines 36-37: the loop test fails and the wrapper returns None
GiveUp ==
    /\ retry.pc = "loop"
    /\ retry.retries >= retry.max_retries
    /\ retry' = [retry EXCEPT !.pc = "returned", !.ret = "None"]
    /\ UNCHANGED retry_side

\* a step of the wrapper once it has been called
RetryStep == (\E outcome \in CallOutcomes : RetryCall(outcome)) \/ GiveUp

NextRetry ==
    \/ \E max_retries \in 0..MaxRetries, initial_delay \in InitialDelays :
          Wrapper(max_retries, initial_delay)
    \/ \E outcome \in CallOutcomes : RetryCall(outcome)
    \/ GiveUp

SpecRetry == Init /\ [][NextRetry]_vars

\* the wrapped call and time.sleep return, so a wrapper that has been called
\* goes on taking its steps
SpecRetryFair == SpecRetry /\ WF_vars(RetryStep)

(***************************************************************************)
(* The claims.                                                             *)
(***************************************************************************)

\* C1: after any sequence of simulate_trade calls the number of assets with
\* holdings > 0 never exceeds MAX_OPEN_TRADES.
C1_OpenTradesBounded == get_open_trades_count(holdings) <= MAX_OPEN_TRADES

\* C1 witness: five positions are open and a BUY that passed the cash
\* pre-check has been turned away at line 876.
C1_Witness ==
    /\ last.outcome = "buy_max_open"
    /\ get_open_trades_count(holdings) = MAX_OPEN_TRADES

\* C2: a simulate_trade SELL whose requested quantity exceeds the asset's
\* holdings leaves cash, every asset's holdings and trade_count unchanged
\* (and places no order).
C2_OversizedSellRejected ==
    [][(/\ last'.op = "simulate_trade"
        /\ last'.signal = "SELL"
        /\ last'.qty > holdings[last'.coin])
       => (/\ cash' = cash
           /\ holdings' = holdings
           /\ trade_count' = trade_count
           /\ inflight' = NoOrder)]_vars

\* C2 witness: a SELL sized above a positive holding has been rejected.
C2_Witness ==
    /\ last.outcome = "sell_rejected"
    /\ holdings[last.coin] > 0
    /\ last.qty > holdings[last.coin]

\* C3 as stated: the quantity calculate_trade_amount returns never costs more
\* than available_risk = max(0, pv * MAX_PORTFOLIO_RISK - cpv).
C3_CostWithinAvailableRisk ==
    last.op = "calculate_trade_amount"
        => MAX_PORTFOLIO_RISK_DEN * Value(last.qty, last.price)
               <= available_risk_x2(last.pv, last.cpv)

\* C3 amended: the returned quantity costs no more than available_risk
\* unless it is the minimum order 0.001, which line 860 returns whenever the
\* risk-sized quantity is smaller.
C3_CostWithinAvailableRiskOrMinimum ==
    last.op = "calculate_trade_amount"
        => \/ last.qty = MIN_TRADE_QTY
           \/ MAX_PORTFOLIO_RISK_DEN * Value(last.qty, last.price)
                  <= available_risk_x2(last.pv, last.cpv)

\* C3 witness: a quantity above the minimum that available_risk capped: one
\* more unit would cost more than available_risk.
C3_Witness ==
    /\ last.op = "calculate_trade_amount"
    /\ last.qty > MIN_TRADE_QTY
    /\ MAX_PORTFOLIO_RISK_DEN * Value(last.qty + 1, last.price)
           > available_risk_x2(last.pv, last.cpv)
    /\ last.cpv > 0

C5_NonNegativeLedger ==
    /\ cash >= 0
    /\ \A c \in Coins : holdings[c] >= 0

\* C5 witness: run_simulation has returned after a sale by simulate_trade
\* and a final sale of another asset (bought once, holding zeroed, its entry
\* price still queued).
C5_Witness ==
    /\ phase = "done"
    /\ trade_count >= 1
    /\ \E c \in Coins : holdings[c] = 0 /\ Len(entry_prices[c]) = 1

\* C6 as stated: whenever a place_order call is in progress (BUY, SELL or a
\* final-liquidation SELL) the ledger's cash and holdings already show the
\* trade.
C6_OrderAfterLedgerCommit ==
    inflight # NoOrder
        => /\ inflight.side = "BUY"
                => /\ cash = last.cash0 - TotalCost(inflight.qty, last.price)
                   /\ holdings[inflight.coin] >= inflight.qty
           /\ inflight.side = "SELL"
                => /\ cash = last.cash0 + NetProceeds(inflight.qty, last.price)
                   /\ holdings[inflight.coin] = 0

\* C7 as stated: when run_simulation returns after an interrupt no asset has
\* positive holdings.
C7_AllLiquidatedOnReturn ==
    phase = "done" => \A c \in Coins : holdings[c] = 0

\* C8 as stated: a final-liquidation sale updates the ledger as the SELL path
\* of simulate_trade does: cash credited net of commission, trade_count
\* incremented, the oldest entry price popped, and the holding zeroed by the
\* time its order has returned.
C8_FinalSaleAsNormalSell ==
    [][/\ (inflight = NoOrder /\ inflight'.via = "final")
            => /\ cash' = cash + NetProceeds(holdings[inflight'.coin],
                                             last'.price)
               /\ inflight'.qty = holdings[inflight'.coin]
               /\ trade_count' = trade_count + 1
               /\ entry_prices[inflight'.coin] # <<>>
                    => entry_prices'[inflight'.coin]
                           = Tail(entry_prices[inflight'.coin])
       /\ (inflight.via = "final" /\ inflight' = NoOrder)
            => holdings'[inflight.coin] = 0]_vars

\* C9 as stated: every get_strategy_state call returns the asset's record,
\* the one it has just created or the one already there, so that neither
\* update_price_mean nor generate_signal fails on it; and a record that
\* exists is not replaced by the call.
C9_StateRecordReturned ==
    /\ last.op = "get_strategy_state"
          => /\ last.ret = strategies[last.coin]
             /\ last.state0 # Absent => strategies[last.coin] = last.state0
    /\ last.op \in {"update_price_mean", "generate_signal"}
          => last.ret # "TypeError"

MacdEntryRule(ind) == ind.macd > ind.macd_signal /\ ind.rsi < RSI_OVERBOUGHT

MacdExitRule(ind) == ind.macd < ind.macd_signal /\ ind.rsi > RSI_OVERSOLD

RsiEntryRule(ind) ==
    ind.rsi < RSI_OVERSOLD /\ ind.stoch_k < 20 /\ ind.stoch_k > ind.stoch_d

RsiExitRule(ind) ==
    ind.rsi > RSI_OVERBOUGHT /\ ind.stoch_k > 80 /\ ind.stoch_k < ind.stoch_d

BollingerEntryRule(price, ind) ==
    price < ind.bb_lower /\ ind.rsi < RSI_OVERSOLD

BollingerExitRule(price, ind) ==
    price > ind.bb_upper /\ ind.rsi > RSI_OVERBOUGHT

\* how many of three conditions hold
Agree(a, b, c) ==
    (IF a THEN 1 ELSE 0) + (IF b THEN 1 ELSE 0) + (IF c THEN 1 ELSE 0)

C15_HoldWithoutIndicators ==
    (/\ last.op \in available_strategies \cup {"generate_signal"}
     /\ Len(price_data[last.coin]) < MaxPeriod + 1
     /\ last.op \in available_strategies => last.indicators = NoIndicators)
        => /\ calculate_indicators(price_data[last.coin], Neutral)
                 = NoIndicators
           /\ last.indicators = NoIndicators
           /\ last.ret = "HOLD"

\* a cycle in which each of the five strategy functions signalled HOLD
IdleCycle ==
    /\ last.op = "generate_signal"
    /\ last.ret = "HOLD"
    /\ last.signals = <<"HOLD", "HOLD", "HOLD", "HOLD", "HOLD">>

RECURSIVE DecayN(_, _)
DecayN(x, k) == IF k = 0 THEN x ELSE DecayN(Decay(x), k - 1)

Position(state) ==
    <<state.position_status, state.buy_price, state.stop_loss_price,
      state.take_profit_price>>

C19_OneEntryPricePerPosition ==
    \A c \in Coins :
       /\ holdings[c] > 0 => Len(entry_prices[c]) = 1
       /\ holdings[c] = 0 => Len(entry_prices[c]) = 0

\* C20: a BUY that simulate_trade rejects, because the cash is insufficient,
\* the open-position count is at the maximum or the risk cap would be
\* exceeded, leaves cash, every asset's held quantity, every entry-price
\* queue and trade_count unchanged, and places no order.
C20_RejectedBuyChangesNothing ==
    [][(/\ last'.op = "simulate_trade"
        /\ last'.signal = "BUY"
        /\ \/ cash < BuyGuardCost(last'.qty, last'.price)
           \/ get_open_trades_count(holdings) >= MAX_OPEN_TRADES
           \/ MAX_PORTFOLIO_RISK_DEN
                  * (last'.cpv + Value(last'.qty, last'.price)) > last'.pv)
          => /\ UNCHANGED <<cash, holdings, entry_prices, trade_count>>
             /\ inflight' = NoOrder]_vars

\* C20 witness: a BUY that passed the cash pre-check has been turned away
\* at the risk cap of line 880 while a position is open; the cash is what
\* it was and no order is in flight.
C20_Witness ==
    /\ last.op = "simulate_trade"
    /\ last.outcome = "buy_risk"
    /\ MAX_PORTFOLIO_RISK_DEN
          * (last.cpv + Value(last.qty, last.price)) > last.pv
    /\ cash = last.cash0
    /\ get_open_trades_count(holdings) > 0
    /\ inflight = NoOrder

\* a simulate_trade step that executes a SELL of the asset whose BUY order
\* has just returned, at the price of that BUY (the one line 886 appended
\* last to the asset's queue)
SellRightAfterBuy ==
    /\ last.op = "place_order"
    /\ last.signal = "BUY"
    /\ last'.op = "simulate_trade"
    /\ last'.outcome \in {"sell", "sell_raised"}
    /\ last'.coin = last.coin
    /\ entry_prices[last.coin] # <<>>
    /\ last'.price = entry_prices[last.coin][Len(entry_prices[last.coin])]

\* C21: a BUY executed at price p followed immediately by a SELL of the
\* same asset at the same price p yields a negative realized profit, with
\* profit_pct about -(BUYING_COMMISSION + SELLING_COMMISSION) * 100, and
\* does not increment profitable_trades.
C21_RoundTripLosesCommission ==
    [][SellRightAfterBuy
          => LET c == last.coin
                 e == Head(entry_prices[c])
             IN  /\ NetProceeds(holdings[c], last'.price)
                        < BuyCost(holdings[c], e)
                 /\ TradeProfitPct(last'.price, e) \in -200..-199
                 /\ profitable_trades' = profitable_trades]_vars

\* C22: starting from cash 10000 and no holdings, a BUY signal at price 100
\* with the asset as the only candidate executes for quantity 5 and gives
\* cash 9499.5, holdings 5 and the entry-price queue [100]; a following
\* SELL signal at price 110 executes and gives holdings 0, cash 10048.95
\* and profit_pct = (549.45 / 500.5 - 1) * 100, about 9.78.
C22_BuyThenSellScenario ==
    [][/\ (/\ n_valuations = 0
           /\ last'.op = "simulate_trade"
           /\ last'.signal = "BUY"
           /\ last'.price = 10)
          => /\ last'.outcome = "buy"
             /\ last'.qty = 50000
             /\ cash' = 94995000
             /\ holdings' = [holdings EXCEPT ![last'.coin] = 50000]
             /\ entry_prices'[last'.coin] = <<10>>
             /\ inflight' = Order(last'.coin, "BUY", 50000, "trade")
       /\ (/\ n_valuations = 1
           /\ cash = 94995000
           /\ last'.op = "simulate_trade"
           /\ last'.signal = "SELL"
           /\ last'.price = 11
           /\ holdings[last'.coin] = 50000
           /\ entry_prices[last'.coin] = <<10>>)
          => /\ last'.outcome = "sell"
             /\ holdings'[last'.coin] = 0
             /\ cash' = 100489500
             /\ entry_prices'[last'.coin] = <<>>
             /\ NetProceeds(50000, 11) = 5494500
             /\ BuyCost(50000, 10) = 5005000
             /\ TradeProfitPct(11, 10) = 9780
             /\ trade_count' = trade_count + 1
             /\ profitable_trades' = profitable_trades + 1]_vars

\* C22 witness: the scenario has run to its end, the SELL at 110 of the 5
\* units bought at 100 leaving cash 10048.95 and one profitable trade.
C22_Witness ==
    /\ last.op = "simulate_trade"
    /\ last.outcome = "sell"
    /\ last.price = 11
    /\ last.cash0 = 94995000
    /\ n_valuations = 2
    /\ cash = 100489500
    /\ holdings[last.coin] = 0
    /\ profitable_trades = 1

\* C22 as stated: the SELL at 110 of the 5 units bought at 100 books a
\* profit_pct that rounds to 9.79.
C22_AsStated ==
    [][(/\ n_valuations = 1
        /\ cash = 94995000
        /\ last'.op = "simulate_trade"
        /\ last'.signal = "SELL"
        /\ last'.price = 11
        /\ holdings[last'.coin] = 50000
        /\ entry_prices[last'.coin] = <<10>>)
       => /\ holdings'[last'.coin] = 0
          /\ cash' = 100489500
          /\ TradeProfitPct(last'.price, Head(entry_prices[last'.coin]))
                \in 9785..9794]_vars

\* C23: for every asset and every buffered history of positive prices,
\* calculate_risk_levels returns (stop_loss_pct, take_profit_pct) with
\* 0.01 <= stop_loss_pct <= 0.05 and take_profit_pct >= 2.5 * stop_loss_pct,
\* the default for fewer than 10 samples included.
C23_RiskLevelsWithinBounds ==
    last.op = "calculate_risk_levels"
       => /\ last.ret[1] >= 100
          /\ last.ret[1] <= 500
          /\ 2 * last.ret[2] >= 5 * last.ret[1]
          /\ Len(price_data[last.coin]) < 10 => last.ret = <<100, 300>>

\* C23 witness: a buffer of ten prices or more whose volatility puts the
\* stop-loss strictly between the floor and the cap.
C23_Witness ==
    /\ last.op = "calculate_risk_levels"
    /\ Len(price_data[last.coin]) >= 10
    /\ last.ret[1] > 100
    /\ last.ret[1] < 500
    /\ 2 * last.ret[2] = 5 * last.ret[1]

\* the assets select_coins scored at or above the bar of line 464
AtOrAboveBar ==
    {last.coin_scores[i][1] : i \in {j \in 1..Len(last.coin_scores) :
        4 * last.coin_scores[j][2] >= min_profit_score_x4(recent_scores)}}

\* the assets with the highest score among those select_coins scored
HighestScoring ==
    {last.coin_scores[i][1] : i \in {j \in 1..Len(last.coin_scores) :
        \A k \in 1..Len(last.coin_scores) :
           last.coin_scores[k][2] <= last.coin_scores[j][2]}}

\* C24: select_coins returns exactly the assets whose score is at least
\* max(MIN_PROFIT_SCORE, 75th percentile of the recent-score window); when
\* no asset reaches that bar it returns the single highest-scoring asset,
\* so its result is never empty.
C24_SelectsAtOrAboveBar ==
    last.op = "select_coins"
       => /\ last.outcome = "returned"
          /\ Len(last.selected) > 0
          /\ Len(last.coin_scores) = Len(last.pairs)
          /\ IF AtOrAboveBar # {}
             THEN /\ {last.selected[i] : i \in 1..Len(last.selected)}
                        = AtOrAboveBar
                  /\ Len(last.selected) = Cardinality(AtOrAboveBar)
             ELSE /\ Len(last.selected) = 1
                  /\ last.selected[1] \in HighestScoring

\* run_simulation has just passed over an asset: its ticker was missing or
\* unsuccessful, or a call made for it raised
AssetPassedOver ==
    /\ last'.op = "run_simulation"
    /\ last'.outcome \in {"asset_skipped", "asset_caught"}

\* C25: in run_simulation a missing or unsuccessful ticker response, or an
\* exception raised while processing one asset, skips only that asset: the
\* remaining selected assets are still processed in the same cycle and the
\* loop goes on to the next cycle; only an external interrupt ends the loop.
C25_OnlyTheAssetIsSkipped ==
    /\ [][AssetPassedOver
            => /\ loop'.pc = "for"
               /\ loop'.cycles = loop.cycles
               /\ loop'.rest = IF loop.pc = "for" THEN Tail(loop.rest)
                                ELSE loop.rest]_vars
    /\ [](loop.pc = "for" /\ loop.rest # <<>>
            => ENABLED (\E ticker \in Tickers, price \in SamplePrices :
                          GetTicker(ticker, price)))
    /\ [](loop.pc = "for" /\ loop.rest = <<>> => ENABLED EndCycle)
    /\ [][loop'.pc = "start" => loop'.cycles >= loop.cycles]_vars
    /\ [][loop.pc # "interrupted" /\ loop'.pc = "interrupted"
            => last'.outcome = "KeyboardInterrupt"]_vars

\* C25 witness: in the first cycle the call of generate_signal for asset 2
\* raised, and the loop has fetched the ticker of asset 3, the next one
\* selected.
C25_Witness ==
    /\ loop.cycles = 0
    /\ loop.pc = "calculate_coin_score"
    /\ loop.coin = 3
    /\ last.op = "run_simulation"
    /\ last.outcome = "ticker"
    /\ price_data[2] # <<>>
    /\ strategies[2] # Absent

\* the current price of every asset: the one the call was given for it, or
\* the market's level when the call was given none
CurrentPrices(prices, level) ==
    [c \in Coins |-> IF c \in DOMAIN prices THEN prices[c] ELSE level]

\* C26: update_portfolio_value appends exactly one value to the valuation
\* series per call, equal to cash plus the sum over every asset with
\* holdings of holding * that asset's current price, and the series is
\* never shortened.
C26_ValuationCountsEveryHolding ==
    [][/\ n_valuations' >= n_valuations
       /\ last'.op = "simulate_trade"
          => /\ n_valuations' = n_valuations + 1
             /\ last'.pv = cash + SumValue(holdings,
                                CurrentPrices(last'.prices, last'.price),
                                NumCoins)]_vars

\* a calculate_coin_score call has just returned a score
ScoreReturned ==
    /\ last'.op = "calculate_coin_score"
    /\ last'.outcome = "returned"

\* C27: after any sequence of calculate_coin_score calls the recent-score
\* window holds at most 100 scores (the most recent ones, the oldest
\* dropped first) and every score returned and stored is at least
\* MIN_SCORE_THRESHOLD (0.1).
C27_WindowBoundedAndFloored ==
    /\ [](/\ Len(recent_scores) <= 100
          /\ \A i \in 1..Len(recent_scores) : recent_scores[i] >= 100)
    /\ [][ScoreReturned
            => LET score == last'.coin_scores[1][2]
               IN  /\ score >= 100
                   /\ recent_scores' =
                         IF Len(recent_scores) < 100
                         THEN Append(recent_scores, score)
                         ELSE Append(Tail(recent_scores), score)]_vars

\* C27 witness: a call on a full window returned the floor itself, for an
\* asset whose only sale lost 2 per cent, and the oldest score is gone.
C27_Witness ==
    /\ last.op = "calculate_coin_score"
    /\ last.outcome = "returned"
    /\ Len(last.window0) = 100
    /\ last.coin_scores[1][2] = 100
    /\ Len(recent_scores) = 100
    /\ recent_scores[100] = 100
    /\ \A i \in 1..99 : recent_scores[i] = last.window0[i + 1]

\* 50 * stdev / mean of a price history, in thousandths
FiftyStdOverMean(h) ==
    LET n == Len(h)
        total == SumFrom(h, 1)
    IN  (5000 * SqrtBetween(100 * (n * SumSquaresFrom(h, 1) - total * total),
                            0, 46340)) \div total

\* C28: calculate_coin_score uses the fixed fallback 0.1 for the short-term
\* volatility term whenever the asset's recorded price history has fewer
\* than 10 points, and 50 * stdev / mean only when it has at least 10.
C28_ShortHistoryUsesFallback ==
    (last.op = "calculate_coin_score" /\ last.outcome = "returned")
       => LET h == last.file.prices
              rest == trade_term(last.file.trades) + 100
              term == IF Len(h) < 10 THEN 100 ELSE FiftyStdOverMean(h)
          IN  last.coin_scores[1][2] = Max(term + rest, 100)

\* C28 witness: the history [100, 101, 99, 102, 98] of an asset without
\* trades scored 0.1 + 0.2 + 0.1.
C28_Witness ==
    /\ last.op = "calculate_coin_score"
    /\ last.outcome = "returned"
    /\ last.file.prices = <<100, 101, 99, 102, 98>>
    /\ last.file.trades = <<>>
    /\ last.coin_scores[1][2] = 400
    /\ FiftyStdOverMean(last.file.prices) = 700

\* simulate_trade has just executed a SELL
SellExecuted ==
    /\ last'.op = "simulate_trade"
    /\ last'.outcome \in {"sell", "sell_raised"}

\* C29: an executed SELL in simulate_trade sells the asset's entire holding
\* h: holdings become 0, cash increases by exactly
\* h * price * (1 - SELLING_COMMISSION), trade_count increases by one, the
\* oldest entry price e is removed from the queue, and profitable_trades
\* increases by one iff the net proceeds exceed
\* h * e * (1 + BUYING_COMMISSION).
C29_SellBooksWholeHolding ==
    [][SellExecuted
         => LET c == last'.coin
                h == holdings[c]
                p == last'.price
                net == Value(h, p) - Commission(h, p, SELLING_COMMISSION_PERMILLE)
            IN  /\ h > 0
                /\ entry_prices[c] # <<>>
                /\ holdings' = [holdings EXCEPT ![c] = 0]
                /\ cash' = cash + net
                /\ trade_count' = trade_count + 1
                /\ entry_prices' = [entry_prices EXCEPT ![c] = Tail(@)]
                /\ profitable_trades' =
                      IF net > Value(h, Head(entry_prices[c]))
                                 + Commission(h, Head(entry_prices[c]),
                                              BUYING_COMMISSION_PERMILLE)
                      THEN profitable_trades + 1
                      ELSE profitable_trades]_vars

\* C29 witness: a holding bought at 1000 has been sold at 20000 and counted
\* as a profitable trade.
C29_Witness ==
    /\ last.op = "simulate_trade"
    /\ last.outcome \in {"sell", "sell_raised"}
    /\ last.price = 2000
    /\ holdings[last.coin] = 0
    /\ trade_count = 2
    /\ profitable_trades = 1
    /\ entry_prices[last.coin] = <<>>
    /\ cash > INITIAL_CASH_DOLLARS * 10000

\* C30: whenever generate_signal returns SELL for an asset whose ledger
\* holdings are > 0, simulate_trade executes the sale in that same cycle
\* (the holdings become 0), whatever quantity calculate_trade_amount sized
\* for the cycle.
C30_SellSignalSellsHolding ==
    [][(/\ last'.op = "simulate_trade"
        /\ last'.signal = "SELL"
        /\ holdings[last'.coin] > 0)
          => /\ last'.outcome \in {"sell", "sell_raised"}
             /\ holdings'[last'.coin] = 0]_vars

C32_ObservationAllOrNothing ==
    \A coin \in StrategyCoins :
       (strategies[coin] # Absent /\ Len(price_data[coin]) <= MaxPeriod + 10)
          => strategies[coin].no = Len(price_data[coin])

\* C33: select_best_strategy always returns one of the five available
\* strategies and stores it as the asset's active_strategy; in the
\* exploitation branch the strategy returned maximizes
\* performance / trade_count over the asset's strategies, every trade count
\* being at least 1.
C33_SelectReturnsStoredStrategy ==
    last.op = "select_best_strategy"
       => /\ last.ret \in available_strategies
          /\ strategies[last.coin].active_strategy = last.ret
          /\ \A f \in available_strategies :
                strategy_trade_count[last.coin][f] >= 1

RetryAccount ==
    retry.pc # "idle"
       => /\ retry.calls <= retry.max_retries
          /\ retry.retries <= retry.max_retries
          /\ retry.delay = retry.initial_delay * 2 ^ retry.retries
          /\ retry.pc = "loop" => retry.calls = retry.retries
          /\ retry.pc # "loop"
                => IF retry.outcome \in {"frame", "None", "Exception"}
                   THEN /\ retry.calls = retry.retries + 1
                        /\ retry.ret = retry.outcome
                        /\ retry.pc = "raised" <=> retry.outcome = "Exception"
                   ELSE /\ retry.retries = retry.max_retries
                        /\ retry.calls = retry.max_retries
                        /\ retry.pc = "returned"
                        /\ retry.ret = "None"

\* C35: the wrapper of retry_on_rate_limit always terminates: it calls the
\* wrapped function at most max_retries times, ends with the outcome of the
\* first call that does not raise a rate-limit error (the value it returned,
\* or the exception line 31 does not catch), has doubled the delay after
\* each rate-limit error, and returns None once max_retries rate-limit
\* errors have occurred.
C35_RetryTerminates ==
    /\ []RetryAccount
    /\ (retry.pc = "loop") ~> (retry.pc # "loop")

\* C35 witness: the wrapper of line 348 has returned the frame of its third
\* call, after two rate-limit errors and sleeps of 10 and 20 seconds.
C35_Witness ==
    /\ retry.pc = "returned"
    /\ retry.max_retries = 5
    /\ retry.initial_delay = 10
    /\ retry.retries = 2
    /\ retry.calls = 3
    /\ retry.delay = 40
    /\ retry.ret = "frame"

====
